---------------------------- MODULE Spec2Model ----------------------------
(***************************************************************************)
(* Booking lifecycle, availability check and payment reconciliation of the *)
(* EasyParkNow backend (routes/bookings.js, routes/payments.js,            *)
(* services/paymentService.js, prisma/schema.prisma).                      *)
(*                                                                         *)
(* Every HTTP handler is a sequence of awaited calls.  Each awaited call   *)
(* that reads or writes the shared store, or calls the payment processor,  *)
(* is one atomic step of the request that runs the handler; requests in    *)
(* different slots interleave freely between steps.                        *)
(*                                                                         *)
(* Times are minutes.  Money is counted in half-pence, so that the 50%     *)
(* late-cancellation refund (totalCost * 0.5) is an exact integer.         *)
(***************************************************************************)
EXTENDS Integers, Sequences, FiniteSets

(***************************************************************************)
(* Bounds of the model.                                                    *)
(***************************************************************************)
MaxBookings == 2
MaxRequests == 2
MaxIntents == 2
MaxSlots == 2
MaxDeliveries == 2

MaxTime == 3

\* quoted durations are 5, 10, ... 5 * MaxQuoteSteps minutes
MaxQuoteSteps == 30

VARIABLES
    bookings,   \* table bookings: sequence of rows, the id is the index
    payments,   \* table payments: sequence of rows, the id is the index
    intents,    \* the payment processor's payment intents, the id is the index
    emails,     \* emails handed to the notification collaborator, by template
    now,        \* the wall clock, in minutes
    req,        \* the requests in flight: slot -> handler position and locals
    response,   \* the HTTP response sent by the last step, if it sent one
    env,        \* the deployment: requests at once, faulty store, redelivery,
                \* and the intents the processor holds at most
    probe,      \* inputs and outputs of the pure helpers
    spaces      \* table parking_spaces: id -> row

vars ==
    <<bookings, payments, intents, emails, now, req, response, env,
      probe, spaces>>

store == <<bookings, payments>>

(***************************************************************************)
(* Domains.                                                                *)
(***************************************************************************)
Slots == 1..MaxRequests

\* Bookings start and end on half-hour instants from one hour after the
\* clock's start; times are minutes.
Instants == {60 + 30 * k : k \in 0..MaxSlots}

\* The clock runs by the hour, to the last instant.
ClockTimes == {t \in {60 * k : k \in 0..(MaxSlots + 2)} : t <= 60 + 30 * MaxSlots}

\* The code treats all drivers alike: u1 is the driver who books, u2 is
\* another signed-in driver, h1 is the host who owns the spaces, a1 an admin.
Users == {"u1", "u2", "h1"}

Drivers == {"u1", "u2"}

Admins == {"a1"}

\* Whoever may send a request on a booking: the drivers, the host, the admin.
Requesters == Users \cup Admins

\* req.user.role of the signed-in users.
roleOf(user) ==
    IF user \in Admins THEN "ADMIN" ELSE IF user = "h1" THEN "HOST" ELSE "DRIVER"

\* Registrations a booking is created with, and those an update may send.
CreateRegs == {"ab12"}

VehicleRegs == {"ab12", "cd34"}

\* "x" is shorter than the schema allows.
UpdateRegs == {"cd34", "x"}

NoId == 0

NoRefund == -1

\* The parking spaces the store starts with; "s9" is an id no space has.
Spaces ==
    [s \in {"s1", "s2"} |->
        [ownerId |-> "h1", isActive |-> (s = "s1"), price |-> 400]]

SpaceIds == {"s1", "s2", "s9"}

\* String.prototype.toUpperCase on the registrations of the model.
toUpperCase(reg) ==
    CASE reg = "ab12" -> "AB12"
      [] reg = "cd34" -> "CD34"
      [] OTHER -> reg

(***************************************************************************)
(* Pricing.                                                                *)
(***************************************************************************)
\* Math.ceil(a / b) for a >= 0, b > 0
CeilDiv(a, b) == (a + b - 1) \div b

\* a / b rounded half-up to a whole number, in exact arithmetic
RoundDiv(a, b) == (2 * a + b) \div (2 * b)

\* JavaScript numbers are IEEE-754 doubles.  A positive double is a record
\* [m, e]: m its significand as a sequence of at most DoubleBits bits, most
\* significant first and without leading zeros, and the value is m * 2^e.
DoubleBits == 53

\* Whole numbers beyond the range of the checker's integers are sequences
\* of limbs in base 2^13, most significant first.
Zeros(n) == [i \in 1..n |-> 0]

RECURSIVE FromBits(_)
FromBits(bits) ==
    IF bits = <<>> THEN 0
    ELSE 2 * FromBits(SubSeq(bits, 1, Len(bits) - 1)) + bits[Len(bits)]

bitsOf(limbs) ==
    [i \in 1..(13 * Len(limbs)) |->
        (limbs[((i - 1) \div 13) + 1] \div 2^(12 - ((i - 1) % 13))) % 2]

limbsOf(bits) ==
    LET pad == Zeros((13 - (Len(bits) % 13)) % 13) \o bits
    IN  [j \in 1..(Len(pad) \div 13) |->
            FromBits(SubSeq(pad, 13 * (j - 1) + 1, 13 * j))]

StripZeros(bits) ==
    IF \A i \in 1..Len(bits) : bits[i] = 0 THEN <<>>
    ELSE LET first == CHOOSE i \in 1..Len(bits) :
                          bits[i] = 1 /\ \A j \in 1..(i - 1) : bits[j] = 0
         IN  SubSeq(bits, first, Len(bits))

\* limbs * k for a small whole number k, from the last limb on
RECURSIVE MulFrom(_, _, _, _)
MulFrom(limbs, k, i, carry) ==
    IF i = 0 THEN <<carry>>
    ELSE LET v == limbs[i] * k + carry
         IN  MulFrom(limbs, k, i - 1, v \div 2^13) \o <<v % 2^13>>

\* limbs divided by a small whole number d, from the first limb on: the
\* quotient's limbs and the remainder.
RECURSIVE DivFrom(_, _, _, _, _)
DivFrom(limbs, d, i, rem, q) ==
    IF i > Len(limbs) THEN [q |-> q, rem |-> rem]
    ELSE LET v == rem * 2^13 + limbs[i]
         IN  DivFrom(limbs, d, i + 1, v % d, Append(q, v \div d))

\* bits + 1
Increment(bits) ==
    IF \A i \in 1..Len(bits) : bits[i] = 1 THEN <<1>> \o Zeros(Len(bits))
    ELSE LET last == CHOOSE i \in 1..Len(bits) :
                         bits[i] = 0 /\ \A j \in (i + 1)..Len(bits) : bits[j] = 1
         IN  SubSeq(bits, 1, last - 1) \o <<1>> \o Zeros(Len(bits) - last)

\* The double nearest to bits * 2^e (plus something below the last bit when
\* sticky): round to nearest, ties to even.
RoundToDouble(bits, e, sticky) ==
    IF Len(bits) <= DoubleBits THEN [m |-> bits, e |-> e]
    ELSE LET keep == SubSeq(bits, 1, DoubleBits)
             guard == bits[DoubleBits + 1]
             rest == sticky \/ \E i \in (DoubleBits + 2)..Len(bits) : bits[i] = 1
             up == guard = 1 /\ (rest \/ keep[DoubleBits] = 1)
             m2 == IF up THEN Increment(keep) ELSE keep
             e2 == e + Len(bits) - DoubleBits
         IN  IF Len(m2) > DoubleBits
             THEN [m |-> SubSeq(m2, 1, DoubleBits), e |-> e2 + 1]
             ELSE [m |-> m2, e |-> e2]

\* The double of a price of pence/100 pounds, as JSON.parse and the store's
\* Float column give it: the double nearest to the decimal.  The quotient
\* pence * 2^65 / 100 has more than DoubleBits + 2 bits.
priceDouble(pence) ==
    LET d == DivFrom(<<pence>> \o Zeros(5), 100, 1, 0, <<>>)
    IN  RoundToDouble(StripZeros(bitsOf(d.q)), -65, d.rem # 0)

\* x * k for a double x and a whole number k, and x * k / 4
doubleTimes(x, k) ==
    LET limbs == limbsOf(x.m)
    IN  RoundToDouble(StripZeros(bitsOf(MulFrom(limbs, k, Len(limbs), 0))),
                      x.e, FALSE)

doubleTimesQuarters(x, k) ==
    LET limbs == limbsOf(x.m)
    IN  RoundToDouble(StripZeros(bitsOf(MulFrom(limbs, k, Len(limbs), 0))),
                      x.e - 2, FALSE)

\* Math.round of a positive double below 2^DoubleBits: floor(x + 0.5), exact
mathRound(x) ==
    LET n == Len(x.m) + x.e
    IN  IF x.e >= 0 THEN FromBits(x.m \o Zeros(x.e))
        ELSE IF n < 0 THEN 0
        ELSE FromBits(SubSeq(x.m, 1, n)) + x.m[n + 1]

\* Math.round(billingHours * hourlyRate * 100), in pence, for a billing time
\* of quarters/4 hours (exact in a double) and a rate of price pence.
roundedPence(quarters, price) ==
    mathRound(doubleTimes(doubleTimesQuarters(priceDouble(price), quarters),
                          100))

\* price is the hourly rate in pence; the result is in half-pence.
calculateBookingCost(startTime, endTime, price) ==
    LET quarters == CeilDiv(endTime - startTime, 15)
    IN  2 * roundedPence(quarters, price)

(***************************************************************************)
(* Availability.                                                           *)
(***************************************************************************)
\* A filter that would also count cancelled bookings (a wrong variant).
BlockingStatusesWithCancelled == {"CONFIRMED", "ACTIVE", "CANCELLED"}

\* status: { in: ['CONFIRMED', 'ACTIVE'] }
BlockingStatuses == {"CONFIRMED", "ACTIVE"}

\* The filter without its third clause (a wrong variant): a stored booking
\* lying strictly inside the candidate range is missed.
ConflictClauseNoContained(b, startTime, endTime) ==
    \/ (b.startTime <= startTime /\ b.endTime > startTime)
    \/ (b.startTime < endTime /\ b.endTime >= endTime)

\* The OR of the three clauses of the findMany filter, for stored row b.
ConflictClause(b, startTime, endTime) ==
    \/ (b.startTime <= startTime /\ b.endTime > startTime)
    \/ (b.startTime < endTime /\ b.endTime >= endTime)
    \/ (b.startTime >= startTime /\ b.endTime <= endTime)

\* A variant without the status filter: a booking in any status blocks.
conflictingBookingsAnyStatus(spaceId, startTime, endTime, excludeBookingId) ==
    {i \in 1..Len(bookings) :
        /\ bookings[i].spaceId = spaceId
        /\ (excludeBookingId # NoId => i # excludeBookingId)
        /\ ConflictClause(bookings[i], startTime, endTime)}

conflictingBookings(spaceId, startTime, endTime, excludeBookingId) ==
    {i \in 1..Len(bookings) :
        /\ bookings[i].spaceId = spaceId
        /\ bookings[i].status \in BlockingStatuses
        /\ (excludeBookingId # NoId => i # excludeBookingId)
        /\ ConflictClause(bookings[i], startTime, endTime)}

checkSpaceAvailability(spaceId, startTime, endTime, excludeBookingId) ==
    conflictingBookings(spaceId, startTime, endTime, excludeBookingId) = {}

(***************************************************************************)
(* The payment processor.                                                  *)
(***************************************************************************)
\* What paymentIntents.create (confirm: true) can answer.
ChargeOutcomes == {"succeeded", "requires_action", "failed"}

\* The intent the processor holds after paymentIntents.create.
stripeCreate(bookingId, amount, outcome) ==
    Append(intents,
        [bookingId |-> bookingId, amount |-> amount, status |-> outcome,
         deliveries |-> 0])

\* What processPayment hands back for the intent with the given id: a
\* declined charge throws, a charge that needs authentication yields a
\* result without success and without id.
processPayment(outcome, id) ==
    CASE outcome = "requires_action" ->
            [threw |-> FALSE, requiresAction |-> TRUE, success |-> FALSE,
             id |-> NoId]
      [] outcome = "succeeded" ->
            [threw |-> FALSE, requiresAction |-> FALSE, success |-> TRUE,
             id |-> id]
      [] OTHER ->
            [threw |-> TRUE, requiresAction |-> FALSE, success |-> FALSE,
             id |-> NoId]

(***************************************************************************)
(* The store.                                                              *)
(***************************************************************************)
\* booking.update({ where: { id }, data: { status } })
setBookingStatus(id, status) ==
    [bookings EXCEPT ![id].status = status]

\* The unique constraints of model Payment: bookingId, and stripePaymentId
\* when it is not NULL.
paymentUniqueViolation(bookingId, stripePaymentId) ==
    \E p \in 1..Len(payments) :
        \/ payments[p].bookingId = bookingId
        \/ (stripePaymentId # NoId
            /\ payments[p].stripePaymentId = stripePaymentId)

\* The row payment.create inserts, status SUCCEEDED.
newPayment(userId, bookingId, amount, stripePaymentId) ==
    [userId |-> userId, bookingId |-> bookingId, amount |-> amount,
     status |-> "SUCCEEDED", stripePaymentId |-> stripePaymentId,
     refundAmount |-> NoRefund]

\* booking.payment of the include: the id of the booking's payment row
paymentOf(bookingId) ==
    IF \E p \in 1..Len(payments) : payments[p].bookingId = bookingId
    THEN CHOOSE p \in 1..Len(payments) : payments[p].bookingId = bookingId
    ELSE NoId

\* Any write of the store may fail (connection lost, timeout): the call throws
\* and writes nothing.
FaultChoices == IF env.faults THEN {FALSE, TRUE} ELSE {FALSE}

(***************************************************************************)
(* Requests.                                                               *)
(***************************************************************************)
Idle ==
    [op |-> "none", pc |-> "idle", user |-> "-", bid |-> NoId,
     spaceId |-> "-", t0 |-> 0, t1 |-> 0, cost |-> 0, base |-> 0,
     ref |-> NoId, reg |-> "-", touched |-> FALSE]

\* A response names the route, the outcome (OK or the error code), and
\* whether the request had written to the store or called the processor.
NoResponse == [op |-> "none", kind |-> "-", touched |-> FALSE]

Reply(op, kind, touched) == [op |-> op, kind |-> kind, touched |-> touched]

\* The client takes the last response before anything else happens.
Quiet == response = NoResponse

InFlight == {q \in Slots : req[q].pc # "idle"}

\* A new request takes the lowest idle slot, if the server takes one more.
FreeSlot(r) ==
    /\ Quiet
    /\ req[r].pc = "idle"
    /\ \A q \in Slots : q < r => req[q].pc # "idle"
    /\ Cardinality(InFlight) < env.concurrency

\* Slot r sends its response and ends.
Finish(r, kind) ==
    /\ req' = [req EXCEPT ![r] = Idle]
    /\ response' = Reply(req[r].op, kind, req[r].touched)

\* Slot r sends its response and ends, after a write or a processor call in
\* this step.
Done(r, kind) ==
    /\ req' = [req EXCEPT ![r] = Idle]
    /\ response' = Reply(req[r].op, kind, TRUE)

\* Slot r moves on to the record next, without a response.
Goto(r, next) ==
    /\ req' = [req EXCEPT ![r] = next]
    /\ response' = NoResponse

\* A request that passed the guards of its first step goes in flight.
Accept(r, first) ==
    /\ req' = [req EXCEPT ![r] = first]
    /\ response' = NoResponse

\* A request rejected in its first step: only the response is sent.
Reject(op, kind) ==
    /\ req' = req
    /\ response' = Reply(op, kind, FALSE)

\* Requests in flight that will still insert a booking / create an intent.
WillInsert ==
    {q \in Slots : req[q].op = "create" /\ req[q].pc \in {"check", "insert"}}

WillCharge ==
    {q \in Slots :
        \/ req[q].op = "create" /\ req[q].pc \in {"check", "insert", "charge"}
        \/ req[q].op = "pay" /\ req[q].pc = "charge"
        \/ req[q].op = "extend" /\ req[q].pc \in {"check", "charge"}}

CanInsert == Len(bookings) + Cardinality(WillInsert) < MaxBookings

CanCharge == Len(intents) + Cardinality(WillCharge) < env.intents

BookingIds == 1..MaxBookings

IntentIds == 1..MaxIntents

(***************************************************************************)
(* POST /api/bookings                                                      *)
(***************************************************************************)
\* Joi validation and the guards on the parking space, in the code's order.
createGuards(user, spaceId, startTime, endTime) ==
    IF ~(startTime >= now /\ endTime > startTime) THEN "VALIDATION_ERROR"
    ELSE IF spaceId \notin DOMAIN spaces THEN "SPACE_NOT_FOUND"
    ELSE IF ~spaces[spaceId].isActive THEN "SPACE_INACTIVE"
    ELSE IF spaces[spaceId].ownerId = user THEN "CANNOT_BOOK_OWN_SPACE"
    ELSE "pass"

\* The request bodies sent to POST /api/bookings: every range of the clock's
\* instants on the bookable space by the booking driver, and one request for
\* each way the body or the space can be wrong.
CreateInputs ==
    {[user |-> "u1", spaceId |-> "s1", startTime |-> s, endTime |-> e,
      reg |-> g] : s \in Instants, e \in Instants, g \in CreateRegs}
    \cup
    {[user |-> u, spaceId |-> sp, startTime |-> 60, endTime |-> 90,
      reg |-> "ab12"] : u \in {"u1", "h1"}, sp \in SpaceIds}

\* An order that inserts before it checks availability (a wrong variant).
createStepsInsertFirst == <<"insert", "check", "charge">>

\* The order of createBooking's awaited calls once the guards on the space
\* have passed: the availability check, booking.create, processPayment.
createSteps == <<"check", "insert", "charge">>

stepAfter(steps, pc) ==
    steps[(CHOOSE i \in 1..Len(steps) : steps[i] = pc) + 1]

CreateBegin(r, user, spaceId, startTime, endTime, reg) ==
    /\ FreeSlot(r)
    /\ LET kind == createGuards(user, spaceId, startTime, endTime)
       IN  IF kind # "pass"
           THEN Reject("create", kind)
           ELSE /\ CanInsert
                /\ CanCharge
                /\ Accept(r, [Idle EXCEPT !.op = "create",
                                        !.pc = createSteps[1],
                                        !.user = user, !.spaceId = spaceId,
                                        !.t0 = startTime, !.t1 = endTime,
                                        !.reg = reg])
    /\ UNCHANGED <<bookings, payments, intents, emails, now, env, spaces, probe>>

CreateCheck(r) ==
    /\ Quiet
    /\ req[r].op = "create"
    /\ req[r].pc = "check"
    /\ IF checkSpaceAvailability(req[r].spaceId, req[r].t0, req[r].t1, NoId)
       THEN Goto(r, [req[r] EXCEPT !.pc = stepAfter(createSteps, "check")])
       ELSE Finish(r, "SPACE_NOT_AVAILABLE")
    /\ UNCHANGED <<bookings, payments, intents, emails, now, env, spaces, probe>>

\* booking.create with the total cost just calculated, status PENDING.
CreateInsert(r) ==
    /\ Quiet
    /\ req[r].op = "create"
    /\ req[r].pc = "insert"
    /\ LET totalCost == calculateBookingCost(req[r].t0, req[r].t1,
                                             spaces[req[r].spaceId].price)
       IN  /\ bookings' = Append(bookings,
                 [userId |-> req[r].user, spaceId |-> req[r].spaceId,
                  startTime |-> req[r].t0, endTime |-> req[r].t1,
                  totalCost |-> totalCost, status |-> "PENDING",
                  vehicleReg |-> toUpperCase(req[r].reg)])
           /\ Goto(r, [req[r] EXCEPT !.pc = stepAfter(createSteps, "insert"),
                                     !.bid = Len(bookings) + 1,
                                     !.cost = totalCost,
                                     !.touched = TRUE])
    /\ UNCHANGED <<payments, intents, emails, now, env, spaces, probe>>

\* Where createBooking goes after processPayment: the try block continues
\* unless processPayment threw.
createAfterCharge(result) ==
    IF result.threw THEN "cancel" ELSE "confirm"

CreateCharge(r, outcome) ==
    /\ Quiet
    /\ req[r].op = "create"
    /\ req[r].pc = "charge"
    /\ intents' = stripeCreate(req[r].bid, req[r].cost, outcome)
    /\ LET result == processPayment(outcome, Len(intents) + 1)
       IN  Goto(r, [req[r] EXCEPT !.pc = createAfterCharge(result),
                                  !.ref = result.id])
    /\ UNCHANGED <<bookings, payments, emails, now, env, spaces, probe>>

CreateConfirm(r, fault) ==
    /\ Quiet
    /\ req[r].op = "create"
    /\ req[r].pc = "confirm"
    /\ IF fault
       THEN /\ bookings' = bookings
            /\ Goto(r, [req[r] EXCEPT !.pc = "cancel"])
       ELSE /\ bookings' = setBookingStatus(req[r].bid, "CONFIRMED")
            /\ Goto(r, [req[r] EXCEPT !.pc = "record"])
    /\ UNCHANGED <<payments, intents, emails, now, env, spaces, probe>>

CreateRecord(r, fault) ==
    /\ Quiet
    /\ req[r].op = "create"
    /\ req[r].pc = "record"
    /\ IF fault \/ paymentUniqueViolation(req[r].bid, req[r].ref)
       THEN /\ UNCHANGED <<payments, emails>>
            /\ Goto(r, [req[r] EXCEPT !.pc = "cancel"])
       ELSE /\ payments' = Append(payments,
                  newPayment(req[r].user, req[r].bid, req[r].cost, req[r].ref))
            /\ emails' = [emails EXCEPT !.confirmation = @ + 1]
            /\ Done(r, "OK")
    /\ UNCHANGED <<bookings, intents, now, env, spaces, probe>>

\* The catch block: cancel the booking, answer PAYMENT_FAILED.  When this
\* write fails too, the error leaves the handler and the booking stays as
\* it is.
CreateCancel(r, fault) ==
    /\ Quiet
    /\ req[r].op = "create"
    /\ req[r].pc = "cancel"
    /\ IF fault
       THEN /\ bookings' = bookings
            /\ Finish(r, "INTERNAL_ERROR")
       ELSE /\ bookings' = setBookingStatus(req[r].bid, "CANCELLED")
            /\ Done(r, "PAYMENT_FAILED")
    /\ UNCHANGED <<payments, intents, emails, now, env, spaces, probe>>

(***************************************************************************)
(* PUT /api/bookings/:id                                                   *)
(***************************************************************************)
\* updateBookingSchema accepts a registration of 2 to 15 characters.
validReg(reg) == reg \in VehicleRegs

\* The guards without the check of the status.
updateGuardsAnyStatus(user, bid, reg) ==
    IF ~validReg(reg) THEN "VALIDATION_ERROR"
    ELSE IF bid > Len(bookings) THEN "BOOKING_NOT_FOUND"
    ELSE IF bookings[bid].userId # user THEN "UNAUTHORIZED"
    ELSE IF bookings[bid].startTime <= now THEN "BOOKING_ALREADY_STARTED"
    ELSE "pass"

updateGuards(user, bid, reg) ==
    IF ~validReg(reg) THEN "VALIDATION_ERROR"
    ELSE IF bid > Len(bookings) THEN "BOOKING_NOT_FOUND"
    ELSE IF bookings[bid].userId # user THEN "UNAUTHORIZED"
    ELSE IF bookings[bid].status # "CONFIRMED" THEN "INVALID_BOOKING_STATUS"
    ELSE IF bookings[bid].startTime <= now THEN "BOOKING_ALREADY_STARTED"
    ELSE "pass"

UpdateBegin(r, user, bid, reg) ==
    /\ FreeSlot(r)
    /\ LET kind == updateGuards(user, bid, reg)
       IN  IF kind # "pass"
           THEN Reject("update", kind)
           ELSE Accept(r, [Idle EXCEPT !.op = "update", !.pc = "write",
                                       !.user = user, !.bid = bid,
                                       !.reg = reg])
    /\ UNCHANGED <<bookings, payments, intents, emails, now, env, spaces, probe>>

UpdateWrite(r) ==
    /\ Quiet
    /\ req[r].op = "update"
    /\ req[r].pc = "write"
    /\ bookings' =
          [bookings EXCEPT ![req[r].bid].vehicleReg = toUpperCase(req[r].reg)]
    /\ Done(r, "OK")
    /\ UNCHANGED <<payments, intents, emails, now, env, spaces, probe>>

(***************************************************************************)
(* POST /api/bookings/:id/extend                                           *)
(***************************************************************************)
extendGuards(user, bid, newEndTime) ==
    IF bid > Len(bookings) THEN "BOOKING_NOT_FOUND"
    ELSE IF bookings[bid].userId # user THEN "UNAUTHORIZED"
    ELSE IF bookings[bid].status \notin {"CONFIRMED", "ACTIVE"}
         THEN "INVALID_BOOKING_STATUS"
    ELSE IF ~(newEndTime > bookings[bid].endTime) THEN "VALIDATION_ERROR"
    ELSE "pass"

\* The request keeps what it read: t0 the booking's end time, base its total
\* cost, spaceId its space; t1 is the requested end time.
\* The processor's intents are bounded: a request that would charge is taken
\* only while an intent is left (a blocking booking stays blocking, so a
\* request taken without one is turned away by the check).
ExtendBegin(r, user, bid, newEndTime) ==
    /\ FreeSlot(r)
    /\ LET kind == extendGuards(user, bid, newEndTime)
       IN  IF kind # "pass"
           THEN Reject("extend", kind)
           ELSE /\ \/ CanCharge
                   \/ ~checkSpaceAvailability(bookings[bid].spaceId,
                                              bookings[bid].endTime,
                                              newEndTime, bid)
                /\ Accept(r, [Idle EXCEPT !.op = "extend", !.pc = "check",
                                !.user = user, !.bid = bid,
                                !.spaceId = bookings[bid].spaceId,
                                !.t0 = bookings[bid].endTime,
                                !.t1 = newEndTime,
                                !.base = bookings[bid].totalCost])
    /\ UNCHANGED <<bookings, payments, intents, emails, now, env, spaces, probe>>

ExtendCheck(r) ==
    /\ Quiet
    /\ req[r].op = "extend"
    /\ req[r].pc = "check"
    /\ IF checkSpaceAvailability(req[r].spaceId, req[r].t0, req[r].t1,
                                 req[r].bid)
       THEN Goto(r, [req[r] EXCEPT
                !.pc = "charge",
                !.cost = calculateBookingCost(req[r].t0, req[r].t1,
                                              spaces[req[r].spaceId].price)])
       ELSE Finish(r, "SPACE_NOT_AVAILABLE")
    /\ UNCHANGED <<bookings, payments, intents, emails, now, env, spaces, probe>>

ExtendCharge(r, outcome) ==
    /\ Quiet
    /\ req[r].op = "extend"
    /\ req[r].pc = "charge"
    /\ intents' = stripeCreate(req[r].bid, req[r].cost, outcome)
    /\ LET result == processPayment(outcome, Len(intents) + 1)
       IN  IF result.threw
           THEN Done(r, "PAYMENT_FAILED")
           ELSE Goto(r, [req[r] EXCEPT !.pc = "write", !.ref = result.id,
                                       !.touched = TRUE])
    /\ UNCHANGED <<bookings, payments, emails, now, env, spaces, probe>>

\* A variant that prices the whole range again, not the increment alone.
extendedBookingWholeRange(b, newEndTime, readTotalCost, additionalCost) ==
    [b EXCEPT !.endTime = newEndTime,
              !.totalCost = readTotalCost
                  + calculateBookingCost(b.startTime, newEndTime,
                                         spaces[b.spaceId].price)]

\* booking.update: the new end time, and the total cost read at the start
\* of the request plus the additional cost.
extendedBooking(b, newEndTime, readTotalCost, additionalCost) ==
    [b EXCEPT !.endTime = newEndTime,
              !.totalCost = readTotalCost + additionalCost]

ExtendWrite(r, fault) ==
    /\ Quiet
    /\ req[r].op = "extend"
    /\ req[r].pc = "write"
    /\ IF fault
       THEN /\ bookings' = bookings
            /\ Done(r, "PAYMENT_FAILED")
       ELSE /\ bookings' =
                  [bookings EXCEPT ![req[r].bid] =
                      extendedBooking(@, req[r].t1, req[r].base, req[r].cost)]
            /\ Goto(r, [req[r] EXCEPT !.pc = "record"])
    /\ UNCHANGED <<payments, intents, emails, now, env, spaces, probe>>

ExtendRecord(r, fault) ==
    /\ Quiet
    /\ req[r].op = "extend"
    /\ req[r].pc = "record"
    /\ IF fault \/ paymentUniqueViolation(req[r].bid, req[r].ref)
       THEN /\ payments' = payments
            /\ Done(r, "PAYMENT_FAILED")
       ELSE /\ payments' = Append(payments,
                  newPayment(req[r].user, req[r].bid, req[r].cost, req[r].ref))
            /\ Done(r, "OK")
    /\ UNCHANGED <<bookings, intents, emails, now, env, spaces, probe>>

(***************************************************************************)
(* POST /api/bookings/:id/cancel                                           *)
(***************************************************************************)
\* The guards with an admin let through like the owner.
cancelGuardsAdminExempt(user, bid) ==
    IF bid > Len(bookings) THEN "BOOKING_NOT_FOUND"
    ELSE IF bookings[bid].userId # user /\ roleOf(user) # "ADMIN"
         THEN "UNAUTHORIZED"
    ELSE IF bookings[bid].status \notin {"CONFIRMED", "PENDING"}
         THEN "INVALID_BOOKING_STATUS"
    ELSE "pass"

cancelGuards(user, bid) ==
    IF bid > Len(bookings) THEN "BOOKING_NOT_FOUND"
    ELSE IF bookings[bid].userId # user THEN "UNAUTHORIZED"
    ELSE IF bookings[bid].status \notin {"CONFIRMED", "PENDING"}
         THEN "INVALID_BOOKING_STATUS"
    ELSE "pass"

\* A variant that takes exactly one hour of notice as late.
canCancelMoreThanAnHour(startTime) == startTime - now > 60

\* hoursUntilStart >= 1, in minutes
canCancel(startTime) == startTime - now >= 60

\* canCancel ? totalCost : totalCost * 0.5 (amounts are in half-pence)
cancelRefundAmount(b) ==
    IF canCancel(b.startTime) THEN b.totalCost ELSE b.totalCost \div 2

\* The request keeps the refund amount (cost) and the id of the payment row
\* that the booking was read with (ref).
CancelBegin(r, user, bid) ==
    /\ FreeSlot(r)
    /\ LET kind == cancelGuards(user, bid)
       IN  IF kind # "pass"
           THEN Reject("cancel", kind)
           ELSE Accept(r, [Idle EXCEPT !.op = "cancel", !.pc = "flip",
                                       !.user = user, !.bid = bid,
                                       !.cost = cancelRefundAmount(bookings[bid]),
                                       !.ref = paymentOf(bid)])
    /\ UNCHANGED <<bookings, payments, intents, emails, now, env, spaces, probe>>

CancelFlip(r, fault) ==
    /\ Quiet
    /\ req[r].op = "cancel"
    /\ req[r].pc = "flip"
    /\ IF fault
       THEN /\ bookings' = bookings
            /\ Finish(r, "INTERNAL_ERROR")
       ELSE /\ bookings' = setBookingStatus(req[r].bid, "CANCELLED")
            /\ IF req[r].cost > 0 /\ req[r].ref # NoId
               THEN Goto(r, [req[r] EXCEPT !.pc = "refund", !.touched = TRUE])
               ELSE Done(r, "OK")
    /\ UNCHANGED <<payments, intents, emails, now, env, spaces, probe>>

\* payment.update: status REFUNDED and the refund amount.  A failure is
\* caught and logged; the response is the same.
refundedPayment(p, refundAmount) ==
    [p EXCEPT !.status = "REFUNDED", !.refundAmount = refundAmount]

\* A variant whose catch block throws the error on.
cancelAfterRefundRethrown(fault) == IF fault THEN "INTERNAL_ERROR" ELSE "OK"

\* The answer after the try block around the refund: the catch block logs
\* the error and the handler goes on to res.json.
cancelAfterRefund(fault) == "OK"

CancelRefund(r, fault) ==
    /\ Quiet
    /\ req[r].op = "cancel"
    /\ req[r].pc = "refund"
    /\ payments' = IF fault THEN payments
                   ELSE [payments EXCEPT ![req[r].ref] =
                            refundedPayment(@, req[r].cost)]
    /\ Done(r, cancelAfterRefund(fault))
    /\ UNCHANGED <<bookings, intents, emails, now, env, spaces, probe>>

(***************************************************************************)
(* POST /api/bookings/:id/start and /stop                                  *)
(***************************************************************************)
\* A variant without the 15 minutes of early start.
startGuardsFromStart(user, bid) ==
    IF bid > Len(bookings) THEN "BOOKING_NOT_FOUND"
    ELSE IF bookings[bid].userId # user THEN "UNAUTHORIZED"
    ELSE IF bookings[bid].status # "CONFIRMED" THEN "INVALID_BOOKING_STATUS"
    ELSE IF now < bookings[bid].startTime THEN "TOO_EARLY"
    ELSE IF now > bookings[bid].endTime THEN "BOOKING_EXPIRED"
    ELSE "pass"

\* A variant that turns away a start exactly 15 minutes before the start time.
startGuardsLessThan15(user, bid) ==
    IF bid > Len(bookings) THEN "BOOKING_NOT_FOUND"
    ELSE IF bookings[bid].userId # user THEN "UNAUTHORIZED"
    ELSE IF bookings[bid].status # "CONFIRMED" THEN "INVALID_BOOKING_STATUS"
    ELSE IF now <= bookings[bid].startTime - 15 THEN "TOO_EARLY"
    ELSE IF now > bookings[bid].endTime THEN "BOOKING_EXPIRED"
    ELSE "pass"

startGuards(user, bid) ==
    IF bid > Len(bookings) THEN "BOOKING_NOT_FOUND"
    ELSE IF bookings[bid].userId # user THEN "UNAUTHORIZED"
    ELSE IF bookings[bid].status # "CONFIRMED" THEN "INVALID_BOOKING_STATUS"
    ELSE IF now < bookings[bid].startTime - 15 THEN "TOO_EARLY"
    ELSE IF now > bookings[bid].endTime THEN "BOOKING_EXPIRED"
    ELSE "pass"

StartBegin(r, user, bid) ==
    /\ FreeSlot(r)
    /\ LET kind == startGuards(user, bid)
       IN  IF kind # "pass"
           THEN Reject("start", kind)
           ELSE Accept(r, [Idle EXCEPT !.op = "start", !.pc = "flip",
                                       !.user = user, !.bid = bid])
    /\ UNCHANGED <<bookings, payments, intents, emails, now, env, spaces, probe>>

StartFlip(r) ==
    /\ Quiet
    /\ req[r].op = "start"
    /\ req[r].pc = "flip"
    /\ bookings' = setBookingStatus(req[r].bid, "ACTIVE")
    /\ Done(r, "OK")
    /\ UNCHANGED <<payments, intents, emails, now, env, spaces, probe>>

stopGuards(user, bid) ==
    IF bid > Len(bookings) THEN "BOOKING_NOT_FOUND"
    ELSE IF bookings[bid].userId # user THEN "UNAUTHORIZED"
    ELSE IF bookings[bid].status # "ACTIVE" THEN "INVALID_BOOKING_STATUS"
    ELSE "pass"

StopBegin(r, user, bid) ==
    /\ FreeSlot(r)
    /\ LET kind == stopGuards(user, bid)
       IN  IF kind # "pass"
           THEN Reject("stop", kind)
           ELSE Accept(r, [Idle EXCEPT !.op = "stop", !.pc = "flip",
                                       !.user = user, !.bid = bid])
    /\ UNCHANGED <<bookings, payments, intents, emails, now, env, spaces, probe>>

StopFlip(r) ==
    /\ Quiet
    /\ req[r].op = "stop"
    /\ req[r].pc = "flip"
    /\ bookings' = setBookingStatus(req[r].bid, "COMPLETED")
    /\ Done(r, "OK")
    /\ UNCHANGED <<payments, intents, emails, now, env, spaces, probe>>

(***************************************************************************)
(* POST /api/payments/process                                              *)
(***************************************************************************)
\* The guards of the pay route on the booking it read.
payGuards(user, bid) ==
    IF bid > Len(bookings) THEN "BOOKING_NOT_FOUND"
    ELSE IF bookings[bid].userId # user THEN "UNAUTHORIZED"
    ELSE IF bookings[bid].status # "PENDING" THEN "INVALID_BOOKING_STATUS"
    ELSE "pass"

PayBegin(r, user, bid) ==
    /\ FreeSlot(r)
    /\ LET kind == payGuards(user, bid)
       IN  IF kind # "pass"
           THEN Reject("pay", kind)
           ELSE /\ CanCharge
                /\ Accept(r, [Idle EXCEPT !.op = "pay", !.pc = "charge",
                                          !.user = user, !.bid = bid,
                                          !.cost = bookings[bid].totalCost])
    /\ UNCHANGED <<bookings, payments, intents, emails, now, env, spaces, probe>>

\* What the pay route does with processPayment's result.
payAfterCharge(result) ==
    IF result.threw THEN "CARD_ERROR"
    ELSE IF result.requiresAction THEN "REQUIRES_ACTION"
    ELSE IF result.success THEN "write"
    ELSE "NO_RESPONSE"

PayCharge(r, outcome) ==
    /\ Quiet
    /\ req[r].op = "pay"
    /\ req[r].pc = "charge"
    /\ intents' = stripeCreate(req[r].bid, req[r].cost, outcome)
    /\ LET result == processPayment(outcome, Len(intents) + 1)
           next == payAfterCharge(result)
       IN  IF next = "write"
           THEN Goto(r, [req[r] EXCEPT !.pc = "write", !.ref = result.id,
                                       !.touched = TRUE])
           ELSE Done(r, next)
    /\ UNCHANGED <<bookings, payments, emails, now, env, spaces, probe>>

\* Promise.all starts booking.update and payment.create together: the store
\* runs them in either order, and each runs whether or not the other failed.
\* pc "write": neither has run; "flipped": booking.update has run;
\* "recorded": payment.create has run.  base counts the writes that threw.
PayFlip(r, fault) ==
    /\ Quiet
    /\ req[r].op = "pay"
    /\ req[r].pc \in {"write", "recorded"}
    /\ bookings' = IF fault THEN bookings
                   ELSE setBookingStatus(req[r].bid, "CONFIRMED")
    /\ LET failed == req[r].base + (IF fault THEN 1 ELSE 0)
       IN  IF req[r].pc = "write"
           THEN Goto(r, [req[r] EXCEPT !.pc = "flipped", !.base = failed])
           ELSE Done(r, IF failed > 0 THEN "INTERNAL_ERROR" ELSE "OK")
    /\ UNCHANGED <<payments, intents, emails, now, env, spaces, probe>>

PayRecord(r, fault) ==
    /\ Quiet
    /\ req[r].op = "pay"
    /\ req[r].pc \in {"write", "flipped"}
    /\ LET threw == fault \/ paymentUniqueViolation(req[r].bid, req[r].ref)
           failed == req[r].base + (IF threw THEN 1 ELSE 0)
       IN  /\ payments' =
                 IF threw THEN payments
                 ELSE Append(payments,
                        newPayment(req[r].user, req[r].bid, req[r].cost,
                                   req[r].ref))
           /\ IF req[r].pc = "write"
              THEN Goto(r, [req[r] EXCEPT !.pc = "recorded", !.base = failed])
              ELSE Done(r, IF failed > 0 THEN "INTERNAL_ERROR" ELSE "OK")
    /\ UNCHANGED <<bookings, intents, emails, now, env, spaces, probe>>

(***************************************************************************)
(* POST /api/payments/confirm                                              *)
(***************************************************************************)
\* stripe.paymentIntents.confirm: only an intent that waits for the
\* customer's authentication can change; it succeeds, fails, or still waits.
\* confirmPayment returns for "succeeded" and throws for everything else.
stripeConfirm(iid, outcome) ==
    IF iid <= Len(intents) /\ intents[iid].status = "requires_action"
    THEN [intents EXCEPT ![iid].status = outcome]
    ELSE intents

confirmPayment(iid, outcome) ==
    /\ iid <= Len(intents)
    /\ intents[iid].status = "requires_action"
    /\ outcome = "succeeded"

ConfirmBegin(r, user, iid, outcome) ==
    /\ FreeSlot(r)
    /\ intents' = stripeConfirm(iid, outcome)
    /\ IF confirmPayment(iid, outcome)
       THEN Accept(r, [Idle EXCEPT !.op = "confirm", !.pc = "flip",
                                   !.user = user, !.ref = iid,
                                   !.bid = intents[iid].bookingId,
                                   !.touched = TRUE])
       ELSE /\ req' = req
            /\ response' = Reply("confirm", "CONFIRMATION_ERROR", TRUE)
    /\ UNCHANGED <<bookings, payments, emails, now, env, spaces, probe>>

ConfirmFlip(r, fault) ==
    /\ Quiet
    /\ req[r].op = "confirm"
    /\ req[r].pc = "flip"
    /\ IF fault
       THEN /\ bookings' = bookings
            /\ Finish(r, "INTERNAL_ERROR")
       ELSE /\ bookings' = setBookingStatus(req[r].bid, "CONFIRMED")
            /\ Goto(r, [req[r] EXCEPT !.pc = "mark"])
    /\ UNCHANGED <<payments, intents, emails, now, env, spaces, probe>>

\* payment.updateMany({ where: { stripePaymentId }, data: { status } })
markPayments(stripePaymentId, status) ==
    [p \in 1..Len(payments) |->
        IF payments[p].stripePaymentId = stripePaymentId
        THEN [payments[p] EXCEPT !.status = status]
        ELSE payments[p]]

ConfirmMark(r) ==
    /\ Quiet
    /\ req[r].op = "confirm"
    /\ req[r].pc = "mark"
    /\ payments' = markPayments(req[r].ref, "SUCCEEDED")
    /\ Done(r, "OK")
    /\ UNCHANGED <<bookings, intents, emails, now, env, spaces, probe>>

(***************************************************************************)
(* POST /api/payments/refund                                               *)
(***************************************************************************)
\* amount 0 stands for a body without an amount
RefundAmounts == {0, 200, 400, 2000}

PaymentIds == 1..MaxBookings

\* amount || payment.amount
refundAmountOf(amount, p) == IF amount = 0 THEN p.amount ELSE amount

\* A variant without the check of the amount against the payment's amount.
refundGuardsAnyAmount(user, pid, amount) ==
    IF user \notin Admins THEN "INSUFFICIENT_PERMISSIONS"
    ELSE IF pid > Len(payments) THEN "PAYMENT_NOT_FOUND"
    ELSE IF payments[pid].status # "SUCCEEDED" THEN "INVALID_PAYMENT_STATUS"
    ELSE "pass"

refundGuards(user, pid, amount) ==
    IF user \notin Admins THEN "INSUFFICIENT_PERMISSIONS"
    ELSE IF pid > Len(payments) THEN "PAYMENT_NOT_FOUND"
    ELSE IF payments[pid].status # "SUCCEEDED" THEN "INVALID_PAYMENT_STATUS"
    ELSE IF refundAmountOf(amount, payments[pid]) > payments[pid].amount
         THEN "INVALID_REFUND_AMOUNT"
    ELSE "pass"

\* The request keeps the payment it read: base its amount, bid its booking;
\* cost is the amount to refund.
RefundBegin(r, user, pid, amount) ==
    /\ FreeSlot(r)
    /\ LET kind == refundGuards(user, pid, amount)
       IN  IF kind # "pass"
           THEN Reject("refund", kind)
           ELSE Accept(r, [Idle EXCEPT !.op = "refund", !.pc = "call",
                              !.user = user, !.ref = pid,
                              !.bid = payments[pid].bookingId,
                              !.base = payments[pid].amount,
                              !.cost = refundAmountOf(amount, payments[pid])])
    /\ UNCHANGED <<bookings, payments, intents, emails, now, env, spaces, probe>>

\* processRefund: stripe.refunds.create returns or throws; it throws for a
\* payment without a payment intent.
RefundCall(r, ok) ==
    /\ Quiet
    /\ req[r].op = "refund"
    /\ req[r].pc = "call"
    /\ IF ok /\ payments[req[r].ref].stripePaymentId # NoId
       THEN Goto(r, [req[r] EXCEPT !.pc = "mark", !.touched = TRUE])
       ELSE Done(r, "REFUND_ERROR")
    /\ UNCHANGED <<bookings, payments, intents, emails, now, env, spaces, probe>>

RefundMark(r, fault) ==
    /\ Quiet
    /\ req[r].op = "refund"
    /\ req[r].pc = "mark"
    /\ IF fault
       THEN /\ payments' = payments
            /\ Done(r, "INTERNAL_ERROR")
       ELSE /\ payments' = [payments EXCEPT ![req[r].ref] =
                              refundedPayment(@, req[r].cost)]
            /\ IF req[r].cost = req[r].base
               THEN Goto(r, [req[r] EXCEPT !.pc = "flip"])
               ELSE Done(r, "OK")
    /\ UNCHANGED <<bookings, intents, emails, now, env, spaces, probe>>

RefundFlip(r, fault) ==
    /\ Quiet
    /\ req[r].op = "refund"
    /\ req[r].pc = "flip"
    /\ IF fault
       THEN /\ bookings' = bookings
            /\ Done(r, "INTERNAL_ERROR")
       ELSE /\ bookings' = setBookingStatus(req[r].bid, "REFUNDED")
            /\ Done(r, "OK")
    /\ UNCHANGED <<payments, intents, emails, now, env, spaces, probe>>

(***************************************************************************)
(* Webhook events of the payment processor (handleWebhookEvent), once the  *)
(* signature has been verified.  The processor delivers an event at least  *)
(* once.  Each handler only writes, so it is one step.                     *)
(***************************************************************************)
\* The processor delivers an event once, or up to MaxDeliveries times where
\* redelivery is part of the deployment.
DeliveryLimit == IF env.redelivery THEN MaxDeliveries ELSE 1

\* handlePaymentSucceeded: what it does to the payments and the emails.
\* sendPaymentReceiptEmail reads the fields of booking.payment: without a
\* payment row it throws, the error is caught and no email is sent.
handlePaymentSucceeded(iid) ==
    [payments |-> markPayments(iid, "SUCCEEDED"),
     emails |-> IF /\ intents[iid].bookingId <= Len(bookings)
                   /\ paymentOf(intents[iid].bookingId) # NoId
                THEN [emails EXCEPT !.receipt = @ + 1]
                ELSE emails]

DeliverSucceeded(iid) ==
    /\ Quiet
    /\ iid <= Len(intents)
    /\ intents[iid].status = "succeeded"
    /\ intents[iid].deliveries < DeliveryLimit
    /\ intents' = [intents EXCEPT ![iid].deliveries = @ + 1]
    /\ payments' = handlePaymentSucceeded(iid).payments
    /\ emails' = handlePaymentSucceeded(iid).emails
    /\ response' = NoResponse
    /\ UNCHANGED <<bookings, now, req, env, spaces, probe>>

\* A variant that marks the payments and leaves the booking alone.
handlePaymentFailedPaymentsOnly(iid) ==
    [payments |-> markPayments(iid, "FAILED"), bookings |-> bookings]

\* handlePaymentFailed: what it does to the payments and the bookings
handlePaymentFailed(iid) ==
    [payments |-> markPayments(iid, "FAILED"),
     bookings |-> setBookingStatus(intents[iid].bookingId, "CANCELLED")]

DeliverFailed(iid) ==
    /\ Quiet
    /\ iid <= Len(intents)
    /\ intents[iid].status = "failed"
    /\ intents[iid].deliveries < DeliveryLimit
    /\ intents' = [intents EXCEPT ![iid].deliveries = @ + 1]
    /\ payments' = handlePaymentFailed(iid).payments
    /\ bookings' = handlePaymentFailed(iid).bookings
    /\ response' = NoResponse
    /\ UNCHANGED <<emails, now, req, env, spaces, probe>>

(***************************************************************************)
(* POST /api/webhooks/stripe (routes/stripeWebhook.js) and the route       *)
(* /webhooks/stripe of routes/payments.js, on their own: a notification    *)
(* arrives with some signature and payload at a store that holds one       *)
(* booking and its payment intent.                                         *)
(***************************************************************************)
Signatures == {"valid", "invalid", "missing"}

Payloads == {"wellformed", "malformed"}

WebhookRoutes == {"stripeWebhook", "payments"}

\* A variant that parses the body and does not look at the signature.
constructEventUnverified(payload, signature, secretSet) ==
    IF payload # "wellformed" THEN "SyntaxError" ELSE "event"

\* stripe.webhooks.constructEvent(body, sig, secret): it verifies the
\* signature of the body against the secret and then parses the body; the
\* outcome is the event, or the type of the error it throws.
constructEvent(payload, signature, secretSet) ==
    IF ~secretSet \/ signature # "valid"
    THEN "StripeSignatureVerificationError"
    ELSE IF payload # "wellformed" THEN "SyntaxError"
    ELSE "event"

\* What each route answers before the event handler runs, "event" when it
\* goes on to handleWebhookEvent.
webhookGuards(route, payload, signature, secretSet) ==
    LET outcome == constructEvent(payload, signature, secretSet)
    IN  IF route = "stripeWebhook"
        THEN IF ~secretSet THEN "WEBHOOK_CONFIG_ERROR"
             ELSE IF outcome = "StripeSignatureVerificationError"
                  THEN "INVALID_SIGNATURE"
             ELSE IF outcome # "event" THEN "WEBHOOK_PROCESSING_ERROR"
             ELSE "event"
        ELSE IF outcome # "event" THEN "WEBHOOK_ERROR" ELSE "event"

\* The stores a notification can meet: booking 1 in any status, its intent
\* succeeded or failed, and its Payment row where the charge succeeded.
BookingStatuses ==
    {"PENDING", "CONFIRMED", "ACTIVE", "COMPLETED", "CANCELLED", "REFUNDED"}

webhookBooking(status) ==
    [userId |-> "u1", spaceId |-> "s1", startTime |-> 60, endTime |-> 90,
     totalCost |-> calculateBookingCost(60, 90, Spaces["s1"].price),
     status |-> status, vehicleReg |-> "AB12"]

webhookIntent(status) ==
    [bookingId |-> 1,
     amount |-> calculateBookingCost(60, 90, Spaces["s1"].price),
     status |-> status, deliveries |-> 0]

webhookPayments(intentStatus) ==
    IF intentStatus = "succeeded"
    THEN {<<>>,
          <<newPayment("u1", 1,
                       calculateBookingCost(60, 90, Spaces["s1"].price), 1)>>}
    ELSE {<<>>}

Notifications ==
    {[route |-> route, signature |-> signature, payload |-> payload,
      secretSet |-> secretSet, done |-> FALSE, reached |-> FALSE] :
        route \in WebhookRoutes, signature \in Signatures,
        payload \in Payloads, secretSet \in BOOLEAN}

\* The route, for the event of intent 1.
Receive ==
    /\ ~probe.done
    /\ LET kind == webhookGuards(probe.route, probe.payload, probe.signature,
                                 probe.secretSet)
       IN  IF kind # "event"
           THEN /\ probe' = [probe EXCEPT !.done = TRUE]
                /\ response' = Reply("webhook", kind, FALSE)
                /\ UNCHANGED <<bookings, payments, intents, emails>>
           ELSE /\ probe' = [probe EXCEPT !.done = TRUE, !.reached = TRUE]
                /\ response' = Reply("webhook", "OK", TRUE)
                /\ intents' = [intents EXCEPT ![1].deliveries = @ + 1]
                /\ IF intents[1].status = "succeeded"
                   THEN /\ payments' = handlePaymentSucceeded(1).payments
                        /\ emails' = handlePaymentSucceeded(1).emails
                        /\ bookings' = bookings
                   ELSE /\ payments' = handlePaymentFailed(1).payments
                        /\ bookings' = handlePaymentFailed(1).bookings
                        /\ emails' = emails
    /\ UNCHANGED <<now, req, env, spaces>>

(***************************************************************************)
(* POST /api/bookings/:id/start on its own: one booking of 01:00-01:30 in  *)
(* some status, at clock times around the start window.                    *)
(***************************************************************************)
\* minutes around start - 15 = 45, the start 60 and the end 90
StartClock == {30, 44, 45, 46, 60, 89, 90, 91}

\* A session is started from 15 minutes before the start on, so a booking
\* is not ACTIVE or COMPLETED before that.
StartStatuses(t) ==
    IF t < 45 THEN BookingStatuses \ {"ACTIVE", "COMPLETED"}
    ELSE BookingStatuses

(***************************************************************************)
(* One driver's day: a booking of 10:00-12:00 is requested at 09:00, the   *)
(* session is started at 09:50 and stopped at 11:30.                       *)
(***************************************************************************)
\* minutes of the day: 09:00, 09:50, 11:30
DayClock == <<9 * 60, 9 * 60 + 50, 11 * 60 + 30>>

DayStart == 10 * 60

DayEnd == 12 * 60

\* The clock moves on to the next time of DayClock.
Advance ==
    /\ Quiet
    /\ \E i \in 1..(Len(DayClock) - 1) :
          /\ now = DayClock[i]
          /\ now' = DayClock[i + 1]
    /\ response' = NoResponse
    /\ UNCHANGED <<bookings, payments, intents, emails, req, env, spaces, probe>>

(***************************************************************************)
(* DELETE /api/spaces/:id                                                  *)
(***************************************************************************)
\* The bookings the route's query includes with the space: those confirmed
\* or active that start after the time of the request.
spaceBookings(spaceId) ==
    {i \in 1..Len(bookings) :
        /\ bookings[i].spaceId = spaceId
        /\ bookings[i].status \in {"CONFIRMED", "ACTIVE"}
        /\ bookings[i].startTime > now}

\* The guards of the delete route on the space it read.
deleteGuards(user, spaceId) ==
    IF spaceId \notin DOMAIN spaces THEN "SPACE_NOT_FOUND"
    ELSE IF spaces[spaceId].ownerId # user /\ roleOf(user) # "ADMIN"
         THEN "UNAUTHORIZED"
    ELSE IF spaceBookings(spaceId) # {} THEN "HAS_ACTIVE_BOOKINGS"
    ELSE "pass"

\* The route reads the space with one query that names both the fields to
\* select and the relation to include.  A store client that refuses such a
\* query makes the route answer with an internal error; one that runs it
\* gives the guards the space and its bookings.
DeleteBegin(r, user, spaceId, runs) ==
    /\ FreeSlot(r)
    /\ LET kind == IF runs THEN deleteGuards(user, spaceId)
                   ELSE "INTERNAL_ERROR"
       IN  IF kind # "pass"
           THEN Reject("delete", kind)
           ELSE Accept(r, [Idle EXCEPT !.op = "delete", !.pc = "flip",
                                       !.user = user, !.spaceId = spaceId])
    /\ UNCHANGED <<bookings, payments, intents, emails, now, env, spaces, probe>>

\* The soft delete: the row stays, its active flag is cleared.
DeleteFlip(r) ==
    /\ Quiet
    /\ req[r].op = "delete"
    /\ req[r].pc = "flip"
    /\ spaces' = [spaces EXCEPT ![req[r].spaceId].isActive = FALSE]
    /\ Done(r, "OK")
    /\ UNCHANGED <<bookings, payments, intents, emails, now, env, probe>>

(***************************************************************************)
(* Extensions of one booking.                                              *)
(***************************************************************************)
\* A confirmed and paid booking of one slot, as createBooking leaves it, and
\* the end times its extensions ask for.
ExtendStart == 60

ExtendEnd == 90

ExtendEnds == {ExtendEnd + 30 * k : k \in 1..MaxSlots}

paidBooking ==
    [userId |-> "u1", spaceId |-> "s1", startTime |-> ExtendStart,
     endTime |-> ExtendEnd,
     totalCost |-> calculateBookingCost(ExtendStart, ExtendEnd,
                                        Spaces["s1"].price),
     status |-> "CONFIRMED", vehicleReg |-> "AB12"]

paidIntent ==
    [bookingId |-> 1, amount |-> paidBooking.totalCost,
     status |-> "succeeded", deliveries |-> 0]

paidPayment == newPayment("u1", 1, paidBooking.totalCost, 1)

(***************************************************************************)
(* The conflict condition on its own: a stored booking and a candidate     *)
(* range are drawn, and the condition of the availability query is         *)
(* evaluated on them.                                                      *)
(***************************************************************************)
ProbeTimes == 0..MaxTime

NoProbe ==
    [stored |-> [startTime |-> 0, endTime |-> 0], startTime |-> 0,
     endTime |-> 0, done |-> FALSE, selected |-> FALSE]

Probes ==
    {[stored |-> [startTime |-> b0, endTime |-> b1], startTime |-> a0,
      endTime |-> a1, done |-> FALSE, selected |-> FALSE] :
        b0 \in ProbeTimes, b1 \in ProbeTimes,
        a0 \in ProbeTimes, a1 \in ProbeTimes}

Select ==
    /\ ~probe.done
    /\ probe' = [probe EXCEPT
                    !.done = TRUE,
                    !.selected = ConflictClause(probe.stored, probe.startTime,
                                                probe.endTime)]
    /\ UNCHANGED <<bookings, payments, intents, emails, now, req, response,
                   env, spaces>>

(***************************************************************************)
(* The cost function on its own: a range and an hourly rate are drawn and  *)
(* calculateBookingCost is applied to them.                                *)
(***************************************************************************)
\* 10:00, as minutes of the day
QuoteStart == 10 * 60

QuoteEnds == {QuoteStart + 5 * k : k \in 1..MaxQuoteSteps}

\* hourly rates in pence, within the 0.5 .. 50 pounds the space schema takes
QuotePrices == {50, 51, 125, 400, 5000}

Quotes ==
    {[startTime |-> QuoteStart, endTime |-> e, price |-> p, done |-> FALSE,
      cost |-> 0] : e \in QuoteEnds, p \in QuotePrices}

Quote ==
    /\ ~probe.done
    /\ probe' = [probe EXCEPT
                    !.done = TRUE,
                    !.cost = calculateBookingCost(probe.startTime,
                                                  probe.endTime, probe.price)]
    /\ UNCHANGED <<bookings, payments, intents, emails, now, req, response,
                   env, spaces>>

(***************************************************************************)
(* The clock.                                                              *)
(***************************************************************************)
Tick ==
    /\ Quiet
    /\ now + 60 \in ClockTimes
    /\ now' = now + 60
    /\ response' = NoResponse
    /\ UNCHANGED <<bookings, payments, intents, emails, req, env, spaces, probe>>

\* The client takes the response.
Observe ==
    /\ ~Quiet
    /\ response' = NoResponse
    /\ UNCHANGED <<bookings, payments, intents, emails, now, req, env, spaces, probe>>

(***************************************************************************)
(* Specification.                                                          *)
(***************************************************************************)
Init ==
    /\ bookings = <<>>
    /\ payments = <<>>
    /\ intents = <<>>
    /\ emails = [confirmation |-> 0, receipt |-> 0]
    /\ now = 0
    /\ req = [r \in Slots |-> Idle]
    /\ spaces = Spaces
    /\ response = NoResponse
    /\ env = [concurrency |-> 1, faults |-> TRUE, redelivery |-> TRUE,
              intents |-> MaxIntents]
    /\ probe = NoProbe

\* The booking routes.
CreateRoute ==
    \/ \E r \in Slots, in \in CreateInputs :
            CreateBegin(r, in.user, in.spaceId, in.startTime, in.endTime, in.reg)
    \/ \E r \in Slots : CreateCheck(r)
    \/ \E r \in Slots : CreateInsert(r)
    \/ \E r \in Slots, outcome \in ChargeOutcomes : CreateCharge(r, outcome)
    \/ \E r \in Slots, fault \in FaultChoices : CreateConfirm(r, fault)
    \/ \E r \in Slots, fault \in FaultChoices : CreateRecord(r, fault)
    \/ \E r \in Slots, fault \in FaultChoices : CreateCancel(r, fault)

UpdateRoute ==
    \/ \E r \in Slots, user \in Requesters, bid \in BookingIds,
          reg \in UpdateRegs : UpdateBegin(r, user, bid, reg)
    \/ \E r \in Slots : UpdateWrite(r)

ExtendRoute ==
    \/ \E r \in Slots, user \in Requesters, bid \in BookingIds,
          newEndTime \in Instants : ExtendBegin(r, user, bid, newEndTime)
    \/ \E r \in Slots : ExtendCheck(r)
    \/ \E r \in Slots, outcome \in ChargeOutcomes : ExtendCharge(r, outcome)
    \/ \E r \in Slots, fault \in FaultChoices : ExtendWrite(r, fault)
    \/ \E r \in Slots, fault \in FaultChoices : ExtendRecord(r, fault)

CancelRoute ==
    \/ \E r \in Slots, user \in Requesters, bid \in BookingIds :
            CancelBegin(r, user, bid)
    \/ \E r \in Slots, fault \in FaultChoices : CancelFlip(r, fault)
    \/ \E r \in Slots, fault \in FaultChoices : CancelRefund(r, fault)

SessionRoutes ==
    \/ \E r \in Slots, user \in Requesters, bid \in BookingIds :
            StartBegin(r, user, bid)
    \/ \E r \in Slots : StartFlip(r)
    \/ \E r \in Slots, user \in Requesters, bid \in BookingIds :
            StopBegin(r, user, bid)
    \/ \E r \in Slots : StopFlip(r)

\* The payment routes and the processor's notifications.
PayRoute ==
    \/ \E r \in Slots, user \in Drivers, bid \in BookingIds :
            PayBegin(r, user, bid)
    \/ \E r \in Slots, outcome \in ChargeOutcomes : PayCharge(r, outcome)
    \/ \E r \in Slots, fault \in FaultChoices : PayFlip(r, fault)
    \/ \E r \in Slots, fault \in FaultChoices : PayRecord(r, fault)

ConfirmRoute ==
    \/ \E r \in Slots, user \in Drivers, iid \in IntentIds,
          outcome \in ChargeOutcomes : ConfirmBegin(r, user, iid, outcome)
    \/ \E r \in Slots, fault \in FaultChoices : ConfirmFlip(r, fault)
    \/ \E r \in Slots : ConfirmMark(r)

RefundRoute ==
    \/ \E r \in Slots, user \in Admins \cup {"u1"}, pid \in PaymentIds,
          amount \in RefundAmounts : RefundBegin(r, user, pid, amount)
    \/ \E r \in Slots, ok \in BOOLEAN : RefundCall(r, ok)
    \/ \E r \in Slots, fault \in FaultChoices : RefundMark(r, fault)
    \/ \E r \in Slots, fault \in FaultChoices : RefundFlip(r, fault)

Webhooks ==
    \/ \E iid \in IntentIds : DeliverSucceeded(iid)
    \/ \E iid \in IntentIds : DeliverFailed(iid)

\* The booking routes, one request at a time, with failing store writes.
Next ==
    \/ CreateRoute
    \/ UpdateRoute
    \/ ExtendRoute
    \/ CancelRoute
    \/ SessionRoutes
    \/ Tick
    \/ Observe

Spec == Init /\ [][Next]_vars

\* Payment reconciliation: bookings are created, paid for, confirmed and
\* refunded, and the processor delivers its notifications, more than once;
\* one request at a time, with failing store writes.
NextPayments ==
    \/ CreateRoute
    \/ PayRoute
    \/ ConfirmRoute
    \/ RefundRoute
    \/ Webhooks
    \/ Observe

SpecPayments == Init /\ [][NextPayments]_vars

\* Requests that overlap in time: the server takes MaxRequests at once, and
\* their awaited calls interleave.  Store writes do not fail and each
\* notification is delivered once.
InitRace ==
    /\ bookings = <<>>
    /\ payments = <<>>
    /\ intents = <<>>
    /\ emails = [confirmation |-> 0, receipt |-> 0]
    /\ now = 0
    /\ req = [r \in Slots |-> Idle]
    /\ spaces = Spaces
    /\ response = NoResponse
    /\ env = [concurrency |-> MaxRequests, faults |-> FALSE,
              redelivery |-> FALSE, intents |-> MaxIntents]
    /\ probe = NoProbe

NextRace ==
    \/ CreateRoute
    \/ ExtendRoute
    \/ PayRoute
    \/ ConfirmRoute
    \/ Webhooks
    \/ Observe

SpecRace == InitRace /\ [][NextRace]_vars

\* The conflict condition applied to every stored range and candidate range
\* over ProbeTimes.
InitOverlap ==
    /\ bookings = <<>>
    /\ payments = <<>>
    /\ intents = <<>>
    /\ emails = [confirmation |-> 0, receipt |-> 0]
    /\ now = 0
    /\ req = [r \in Slots |-> Idle]
    /\ spaces = Spaces
    /\ response = NoResponse
    /\ env = [concurrency |-> 1, faults |-> FALSE, redelivery |-> FALSE,
              intents |-> MaxIntents]
    /\ probe \in Probes

NextOverlap == Select

SpecOverlap == InitOverlap /\ [][NextOverlap]_vars

\* The cost function applied to every range and rate of Quotes.
InitPricing ==
    /\ bookings = <<>>
    /\ payments = <<>>
    /\ intents = <<>>
    /\ emails = [confirmation |-> 0, receipt |-> 0]
    /\ now = 0
    /\ req = [r \in Slots |-> Idle]
    /\ spaces = Spaces
    /\ response = NoResponse
    /\ env = [concurrency |-> 1, faults |-> FALSE, redelivery |-> FALSE,
              intents |-> MaxIntents]
    /\ probe \in Quotes

NextPricing == Quote

SpecPricing == InitPricing /\ [][NextPricing]_vars

\* The webhook routes applied to every notification of Notifications, at
\* every store of one booking.
InitWebhook ==
    /\ \E status \in BookingStatuses : bookings = <<webhookBooking(status)>>
    /\ \E status \in {"succeeded", "failed"} :
          /\ intents = <<webhookIntent(status)>>
          /\ payments \in webhookPayments(status)
    /\ emails = [confirmation |-> 0, receipt |-> 0]
    /\ now = 0
    /\ req = [r \in Slots |-> Idle]
    /\ spaces = Spaces
    /\ response = NoResponse
    /\ env = [concurrency |-> 1, faults |-> FALSE, redelivery |-> FALSE,
              intents |-> MaxIntents]
    /\ probe \in Notifications

NextWebhook == Receive

SpecWebhook == InitWebhook /\ [][NextWebhook]_vars

\* The start route at every time of StartClock, for every status of the
\* booking.
InitStart ==
    /\ now \in StartClock
    /\ \E status \in StartStatuses(now) : bookings = <<webhookBooking(status)>>
    /\ payments = <<>>
    /\ intents = <<>>
    /\ emails = [confirmation |-> 0, receipt |-> 0]
    /\ req = [r \in Slots |-> Idle]
    /\ spaces = Spaces
    /\ response = NoResponse
    /\ env = [concurrency |-> 1, faults |-> FALSE, redelivery |-> FALSE,
              intents |-> MaxIntents]
    /\ probe = NoProbe

NextStart ==
    \/ \E r \in Slots, user \in Drivers, bid \in BookingIds :
            StartBegin(r, user, bid)
    \/ \E r \in Slots : StartFlip(r)
    \/ Observe

SpecStart == InitStart /\ [][NextStart]_vars

\* The driver u1 books s1 for 10:00-12:00 at 09:00, starts at 09:50 and
\* stops at 11:30; the charge has any of its outcomes.
InitDay ==
    /\ bookings = <<>>
    /\ payments = <<>>
    /\ intents = <<>>
    /\ emails = [confirmation |-> 0, receipt |-> 0]
    /\ now = DayClock[1]
    /\ req = [r \in Slots |-> Idle]
    /\ spaces = Spaces
    /\ response = NoResponse
    /\ env = [concurrency |-> 1, faults |-> FALSE, redelivery |-> FALSE,
              intents |-> MaxIntents]
    /\ probe = NoProbe

NextDay ==
    \/ /\ now = DayClock[1]
       /\ \E r \in Slots, reg \in CreateRegs :
             CreateBegin(r, "u1", "s1", DayStart, DayEnd, reg)
    \/ \E r \in Slots : CreateCheck(r)
    \/ \E r \in Slots : CreateInsert(r)
    \/ \E r \in Slots, outcome \in ChargeOutcomes : CreateCharge(r, outcome)
    \/ \E r \in Slots, fault \in FaultChoices : CreateConfirm(r, fault)
    \/ \E r \in Slots, fault \in FaultChoices : CreateRecord(r, fault)
    \/ \E r \in Slots, fault \in FaultChoices : CreateCancel(r, fault)
    \/ /\ now = DayClock[2]
       /\ \E r \in Slots, bid \in BookingIds : StartBegin(r, "u1", bid)
    \/ \E r \in Slots : StartFlip(r)
    \/ /\ now = DayClock[3]
       /\ \E r \in Slots, bid \in BookingIds : StopBegin(r, "u1", bid)
    \/ \E r \in Slots : StopFlip(r)
    \/ Advance
    \/ Observe

SpecDay == InitDay /\ [][NextDay]_vars

\* The hosts' route next to the drivers' routes: a space is deleted while
\* bookings on it are created, started and stopped; one request at a time.
DeleteRoute ==
    \/ \E r \in Slots, user \in Users \cup Admins, spaceId \in SpaceIds,
          runs \in BOOLEAN : DeleteBegin(r, user, spaceId, runs)
    \/ \E r \in Slots : DeleteFlip(r)

InitSpaces ==
    /\ bookings = <<>>
    /\ payments = <<>>
    /\ intents = <<>>
    /\ emails = [confirmation |-> 0, receipt |-> 0]
    /\ now = 0
    /\ req = [r \in Slots |-> Idle]
    /\ spaces = Spaces
    /\ response = NoResponse
    /\ env = [concurrency |-> 1, faults |-> FALSE, redelivery |-> FALSE,
              intents |-> MaxIntents]
    /\ probe = NoProbe

NextSpaces ==
    \/ CreateRoute
    \/ SessionRoutes
    \/ DeleteRoute
    \/ Tick
    \/ Observe

SpecSpaces == InitSpaces /\ [][NextSpaces]_vars

\* The initial charge on its own: bookings are created and paid for, with
\* requests running at once and no failing writes; no other route charges.
NextCharge ==
    \/ CreateRoute
    \/ PayRoute
    \/ Observe

SpecCharge == InitRace /\ [][NextCharge]_vars

\* Extensions racing on one booking: the store holds one confirmed and paid
\* booking, and its user extends it, with requests running at once and no
\* failing writes.
InitExtend ==
    /\ bookings = <<paidBooking>>
    /\ payments = <<paidPayment>>
    /\ intents = <<paidIntent>>
    /\ emails = [confirmation |-> 1, receipt |-> 0]
    /\ now = 0
    /\ req = [r \in Slots |-> Idle]
    /\ spaces = Spaces
    /\ response = NoResponse
    /\ env = [concurrency |-> MaxRequests, faults |-> FALSE,
              redelivery |-> FALSE, intents |-> MaxIntents + 1]
    /\ probe = NoProbe

NextExtend ==
    \/ \E r \in Slots, newEndTime \in ExtendEnds :
            ExtendBegin(r, "u1", 1, newEndTime)
    \/ \E r \in Slots : ExtendCheck(r)
    \/ \E r \in Slots, outcome \in ChargeOutcomes : ExtendCharge(r, outcome)
    \/ \E r \in Slots, fault \in FaultChoices : ExtendWrite(r, fault)
    \/ \E r \in Slots, fault \in FaultChoices : ExtendRecord(r, fault)
    \/ Observe

SpecExtend == InitExtend /\ [][NextExtend]_vars

(***************************************************************************)
(* Properties.                                                             *)
(***************************************************************************)
\* The half-open overlap test of two ranges [a0, a1) and [b0, b1).
Overlaps(a0, a1, b0, b1) == a0 < b1 /\ b0 < a1

BookingIdx == 1..Len(bookings)

\* C1: no two distinct bookings of the same space whose status is CONFIRMED
\* or ACTIVE have overlapping half-open time ranges, under any interleaving
\* of concurrent create, extend, pay, confirm and webhook steps.
NoDoubleBooking ==
    \A i \in BookingIdx, j \in BookingIdx :
        (/\ i < j
         /\ bookings[i].spaceId = bookings[j].spaceId
         /\ bookings[i].status \in {"CONFIRMED", "ACTIVE"}
         /\ bookings[j].status \in {"CONFIRMED", "ACTIVE"})
        => ~Overlaps(bookings[i].startTime, bookings[i].endTime,
                     bookings[j].startTime, bookings[j].endTime)

\* A payment intent of booking i that the processor reports as succeeded.
SucceededChargeFor(i, its) ==
    \E k \in 1..Len(its) : its[k].bookingId = i /\ its[k].status = "succeeded"

\* C2: a booking's status changes from PENDING to CONFIRMED only in a state
\* where the processor has reported a charge for that booking as succeeded;
\* a declined, errored or requires_action charge leaves it unconfirmed.
ConfirmedOnlyOnSucceededCharge ==
    [][\A i \in BookingIdx :
          (bookings[i].status = "PENDING" /\ bookings'[i].status = "CONFIRMED")
          => SucceededChargeFor(i, intents')]_vars

LegalEdges ==
    {<<"PENDING", "CONFIRMED">>, <<"PENDING", "CANCELLED">>,
     <<"CONFIRMED", "ACTIVE">>, <<"ACTIVE", "COMPLETED">>,
     <<"CONFIRMED", "CANCELLED">>, <<"CONFIRMED", "REFUNDED">>,
     <<"COMPLETED", "REFUNDED">>}

\* C3: every change of a booking's status, by any operation in any order, is
\* one of the edges of the lifecycle (LegalEdges); a cancelled, completed or
\* refunded booking never returns to pending, confirmed or active.
StatusChangesAreLegalEdges ==
    [][\A i \in BookingIdx :
          bookings'[i].status # bookings[i].status
          => <<bookings[i].status, bookings'[i].status>> \in LegalEdges]_vars

\* No request is in flight, the last response has been taken, and every
\* succeeded charge has had its notification processed.
Settled ==
    /\ Quiet
    /\ InFlight = {}
    /\ \A k \in 1..Len(intents) :
          intents[k].status = "succeeded" => intents[k].deliveries > 0

\* C4: once everything in progress has run to its end, a booking with a
\* processor-confirmed charge is not left PENDING, and if it is CONFIRMED a
\* Payment row records that charge.
ChargedBookingGetsConfirmed ==
    Settled =>
        \A k \in 1..Len(intents) :
            intents[k].status = "succeeded" =>
                /\ bookings[intents[k].bookingId].status # "PENDING"
                /\ (bookings[intents[k].bookingId].status = "CONFIRMED"
                    => \E p \in 1..Len(payments) :
                            payments[p].stripePaymentId = k)

\* C5: a second or later delivery of the same payment-succeeded notification
\* leaves the payments, the bookings and the emails sent as they were just
\* before it.
RedeliveryChangesNothing ==
    [][\A k \in 1..Len(intents) :
          (/\ intents[k].status = "succeeded"
           /\ intents[k].deliveries >= 1
           /\ intents'[k].deliveries = intents[k].deliveries + 1)
          => (payments' = payments /\ bookings' = bookings
              /\ emails' = emails)]_vars

\* C6: every Payment whose refundAmount is set has refundAmount <= amount.
RefundWithinAmount ==
    \A p \in 1..Len(payments) :
        payments[p].refundAmount # NoRefund
        => payments[p].refundAmount <= payments[p].amount

\* C7: in no reachable state is a booking CONFIRMED with a succeeded charge
\* while no Payment row holds that charge's transaction id.
PaymentRowBeforeConfirmed ==
    \A k \in 1..Len(intents) :
        (/\ intents[k].status = "succeeded"
         /\ bookings[intents[k].bookingId].status = "CONFIRMED")
        => \E p \in 1..Len(payments) : payments[p].stripePaymentId = k

GuardKinds ==
    {"VALIDATION_ERROR", "SPACE_NOT_FOUND", "SPACE_INACTIVE",
     "CANNOT_BOOK_OWN_SPACE", "SPACE_NOT_AVAILABLE", "BOOKING_NOT_FOUND",
     "UNAUTHORIZED", "INVALID_BOOKING_STATUS", "BOOKING_ALREADY_STARTED",
     "TOO_EARLY", "BOOKING_EXPIRED"}

BookingRoutes == {"create", "update", "extend", "cancel", "start", "stop"}

\* C8: when a booking route answers with a guard's rejection, the request
\* has written nothing and has not called the payment processor, and the
\* rejecting step itself leaves bookings, payments and intents unchanged.
GuardRejectionLeavesNoTrace ==
    [][(/\ response' # NoResponse
        /\ response'.op \in BookingRoutes
        /\ response'.kind \in GuardKinds)
       => (/\ ~response'.touched
           /\ bookings' = bookings
           /\ payments' = payments
           /\ intents' = intents
           /\ emails' = emails)]_vars

\* A create request has been turned away for a conflict with a stored
\* booking.
GuardRejectionSeen ==
    /\ response.op = "create"
    /\ response.kind = "SPACE_NOT_AVAILABLE"
    /\ Len(bookings) > 0

\* Bookings of the space, other than PENDING ones of requests still in
\* flight, that overlap the range in a blocking status.
OverlappingBlockers(spaceId, startTime, endTime) ==
    {i \in BookingIdx :
        /\ bookings[i].spaceId = spaceId
        /\ bookings[i].status \in {"CONFIRMED", "ACTIVE"}
        /\ Overlaps(startTime, endTime,
                    bookings[i].startTime, bookings[i].endTime)}

\* Every booking of the space is cancelled or does not overlap the range
\* (it adjoins it or lies apart from it).
OnlyAdjoiningOrCancelled(spaceId, startTime, endTime) ==
    \A i \in BookingIdx :
        bookings[i].spaceId = spaceId =>
            \/ bookings[i].status = "CANCELLED"
            \/ ~Overlaps(startTime, endTime,
                         bookings[i].startTime, bookings[i].endTime)

\* C9: with one request at a time, the availability step of createBooking
\* answers SPACE_NOT_AVAILABLE and inserts nothing when a CONFIRMED or ACTIVE
\* booking of the space overlaps the range; when every booking of the space
\* is cancelled or only adjoins the range the request goes on, and its next
\* step inserts a PENDING booking with that range.
CreateConflictIffOverlap ==
    [][\A r \in Slots :
          /\ (req[r].op = "create" /\ req[r].pc = "check"
              /\ req'[r] # req[r])
             => /\ OverlappingBlockers(req[r].spaceId, req[r].t0,
                                       req[r].t1) # {}
                   => (/\ response'.kind = "SPACE_NOT_AVAILABLE"
                       /\ req'[r] = Idle
                       /\ bookings' = bookings)
                /\ OnlyAdjoiningOrCancelled(req[r].spaceId, req[r].t0,
                                            req[r].t1)
                   => (/\ response' = NoResponse
                       /\ req'[r].pc = "insert")
          /\ (req[r].op = "create" /\ req[r].pc = "insert"
              /\ req'[r] # req[r])
             => /\ Len(bookings') = Len(bookings) + 1
                /\ bookings'[Len(bookings')].status = "PENDING"
                /\ bookings'[Len(bookings')].startTime = req[r].t0
                /\ bookings'[Len(bookings')].endTime = req[r].t1]_vars

\* A PENDING booking has been inserted although a CONFIRMED booking of the
\* same space ends exactly where it starts.
AdjoiningCreateAccepted ==
    \E i \in BookingIdx, j \in BookingIdx :
        /\ bookings[j].status = "PENDING"
        /\ bookings[i].status = "CONFIRMED"
        /\ bookings[i].spaceId = bookings[j].spaceId
        /\ bookings[i].endTime = bookings[j].startTime

NonEmpty(a0, a1) == a0 < a1

\* C10: for non-empty ranges the three OR-ed clauses select the stored
\* booking exactly when candidate.start < stored.end and stored.start <
\* candidate.end; the result is the same with the two ranges exchanged, a
\* range conflicts with itself, and ranges that only adjoin do not conflict.
ConflictClauseIsHalfOpenOverlap ==
    (/\ probe.done
     /\ NonEmpty(probe.startTime, probe.endTime)
     /\ NonEmpty(probe.stored.startTime, probe.stored.endTime))
    => /\ probe.selected
          = Overlaps(probe.startTime, probe.endTime,
                     probe.stored.startTime, probe.stored.endTime)
       /\ probe.selected
          = ConflictClause([startTime |-> probe.startTime,
                            endTime |-> probe.endTime],
                           probe.stored.startTime, probe.stored.endTime)
       /\ (probe.stored.startTime = probe.startTime
           /\ probe.stored.endTime = probe.endTime) => probe.selected
       /\ (probe.stored.endTime = probe.startTime
           \/ probe.endTime = probe.stored.startTime) => ~probe.selected

\* The condition has selected a stored booking that lies strictly inside the
\* candidate range.
ContainedBookingSelected ==
    /\ probe.done
    /\ probe.selected
    /\ probe.startTime < probe.stored.startTime
    /\ probe.stored.startTime < probe.stored.endTime
    /\ probe.stored.endTime < probe.endTime


\* Billed minutes: the duration rounded up to the next multiple of 15.
BilledMinutes(startTime, endTime) == 15 * CeilDiv(endTime - startTime, 15)

\* The cost in pence of the billed minutes at price pence an hour, rounded
\* half-up to whole pence.
HalfUpPence(minutes, price) == RoundDiv(minutes * price, 60)

\* C11: the cost of a range is its duration rounded up to the next multiple
\* of 15 minutes, times the hourly rate, rounded half-up to whole pence
\* (the model's money is in half-pence, hence the factor 2).
CostIsBilledTimeAtRateHalfUp ==
    ("cost" \in DOMAIN probe /\ probe.done)
        => probe.cost
             = 2 * HalfUpPence(BilledMinutes(probe.startTime, probe.endTime),
                               probe.price)

\* The request in slot r is an extend whose booking.update is next.
ExtendWriting(r) == req[r].op = "extend" /\ req[r].pc = "write"

\* C12: the booking.update of an extend sets the end time to the requested
\* one and raises the total cost by exactly the cost of the added range
\* [old end, new end) at the space's rate, and changes nothing else of the
\* booking or of any other booking.
ExtendAddsIncrementCostStep ==
    \A r \in Slots :
        (ExtendWriting(r) /\ bookings' # bookings) =>
            LET bid == req[r].bid
                b == bookings[bid]
                added == calculateBookingCost(b.endTime, req[r].t1,
                                              Spaces[b.spaceId].price)
            IN  bookings' = [bookings EXCEPT
                                ![bid] = [b EXCEPT
                                    !.endTime = req[r].t1,
                                    !.totalCost = b.totalCost + added]]

ExtendRecording(r) == req[r].op = "extend" /\ req[r].pc = "record"

\* C13: an extend of a booking that already has its Payment row, once the
\* additional cost is charged and the booking updated, answers success,
\* leaves the booking's status as it was and adds a Payment row for the
\* additional cost.
ExtendOfPaidBookingRecordsPaymentStep ==
    \A r \in Slots :
        (ExtendRecording(r) /\ paymentOf(req[r].bid) # NoId
            /\ response' # NoResponse) =>
            /\ response'.kind = "OK"
            /\ bookings'[req[r].bid].status = bookings[req[r].bid].status
            /\ payments' = Append(payments,
                  newPayment(req[r].user, req[r].bid, req[r].cost,
                             req[r].ref))

ExtendOfPaidBookingRecordsPayment ==
    [][ExtendOfPaidBookingRecordsPaymentStep]_vars

\* The request in slot r is an extend whose availability check is next.
ExtendChecking(r) == req[r].op = "extend" /\ req[r].pc = "check"

\* The other confirmed or active bookings of booking bid's space that
\* overlap the range [booking's end, newEndTime).
ExtensionBlockers(bid, newEndTime) ==
    {i \in BookingIdx :
        /\ i # bid
        /\ bookings[i].spaceId = bookings[bid].spaceId
        /\ bookings[i].status \in {"CONFIRMED", "ACTIVE"}
        /\ Overlaps(bookings[bid].endTime, newEndTime,
                    bookings[i].startTime, bookings[i].endTime)}

\* C14: the availability check of an extend answers SPACE_NOT_AVAILABLE
\* exactly when another confirmed or active booking of the same space
\* overlaps [old end, new end), and the step leaves every booking as it is;
\* a rejected extend (conflict, or a new end not after the old one) leaves
\* every booking as it is, and no extend with a new end not after the old
\* one gets as far as the check.
ExtendConflictIffOverlapStep ==
    /\ \A r \in Slots :
          (ExtendChecking(r) /\ req'[r] # req[r]) =>
              /\ (response'.kind = "SPACE_NOT_AVAILABLE"
                    <=> ExtensionBlockers(req[r].bid, req[r].t1) # {})
              /\ bookings' = bookings
    /\ (response'.op = "extend" /\ response' # response
          /\ response'.kind \in {"SPACE_NOT_AVAILABLE", "VALIDATION_ERROR"})
          => bookings' = bookings
    /\ \A r \in Slots :
          ExtendChecking(r) => req[r].t1 > bookings[req[r].bid].endTime

CancelTaken(r) == req[r].op # "cancel" /\ req'[r].op = "cancel"

\* C15: the refund amount of a cancellation is the whole total cost when the
\* booking starts an hour or more after now, and half of it otherwise; it is
\* the amount written to the booking's Payment row.
CancelRefundByNoticeStep ==
    /\ \A r \in Slots :
          CancelTaken(r) =>
              LET b == bookings[req'[r].bid]
              IN  IF b.startTime >= now + 60
                  THEN req'[r].cost = b.totalCost
                  ELSE 2 * req'[r].cost = b.totalCost
    /\ \A r \in Slots :
          (req[r].op = "cancel" /\ payments' # payments) =>
              /\ payments'[req[r].ref].refundAmount = req[r].cost
              /\ payments'[req[r].ref].bookingId = req[r].bid

CancelRefundByNotice == [][CancelRefundByNoticeStep]_vars

\* A cancellation exactly one hour before the start has answered success and
\* recorded the whole total cost as refunded.
CancelledAnHourAheadInFull ==
    /\ response.op = "cancel"
    /\ response.kind = "OK"
    /\ \E p \in 1..Len(payments) :
          LET b == bookings[payments[p].bookingId]
          IN  /\ b.status = "CANCELLED"
              /\ b.startTime = now + 60
              /\ payments[p].status = "REFUNDED"
              /\ payments[p].refundAmount = b.totalCost

\* C16: once a cancel has passed its guards and set the booking to
\* CANCELLED, the booking stays CANCELLED and the request answers success,
\* whether or not the refund is recorded on the Payment row.
CancelSurvivesRefundFailureStep ==
    \A r \in Slots :
        (req[r].op = "cancel" /\ req'[r] # req[r]) =>
            /\ (req[r].pc = "flip" /\ bookings' # bookings) =>
                  /\ bookings'[req[r].bid].status = "CANCELLED"
                  /\ response' # NoResponse => response'.kind = "OK"
            /\ req[r].pc = "refund" =>
                  /\ bookings[req[r].bid].status = "CANCELLED"
                  /\ bookings' = bookings
                  /\ response' = Reply("cancel", "OK", TRUE)

CancelSurvivesRefundFailure == [][CancelSurvivesRefundFailureStep]_vars

\* A cancel has answered success on a booking that is CANCELLED while its
\* Payment row was left SUCCEEDED with no refund amount: the refund was not
\* recorded.
CancelledWithRefundUnrecorded ==
    /\ response.op = "cancel"
    /\ response.kind = "OK"
    /\ \E p \in 1..Len(payments) :
          /\ bookings[payments[p].bookingId].status = "CANCELLED"
          /\ payments[p].status = "SUCCEEDED"
          /\ payments[p].refundAmount = NoRefund

\* This step delivers the payment_intent.payment_failed event of intent iid.
FailedDelivered(iid) ==
    /\ iid <= Len(intents)
    /\ intents[iid].status = "failed"
    /\ intents'[iid].deliveries = intents[iid].deliveries + 1

\* C17: when the payment-failed event of an intent is handled, every Payment
\* row whose stripePaymentId is that intent's id is FAILED afterwards, the
\* other rows are as they were, and the booking named in the intent's
\* metadata is CANCELLED, with the other bookings as they were.
FailedEventCancelsBookingStep ==
    \A iid \in IntentIds :
        FailedDelivered(iid) =>
            /\ Len(payments') = Len(payments)
            /\ \A p \in 1..Len(payments) :
                  IF payments[p].stripePaymentId = iid
                  THEN payments'[p] = [payments[p] EXCEPT !.status = "FAILED"]
                  ELSE payments'[p] = payments[p]
            /\ bookings' = [bookings EXCEPT
                              ![intents[iid].bookingId].status = "CANCELLED"]

Verified ==
    /\ probe.secretSet
    /\ probe.signature = "valid"
    /\ probe.payload = "wellformed"

\* C18: a notification whose signature does not verify against the shared
\* secret, or whose payload is malformed, is answered with an error and
\* changes no payment, no booking and no email count, and the event handler
\* is reached by verified notifications only.
UnverifiedNotificationRejectedStep ==
    ("signature" \in DOMAIN probe) =>
        /\ ~Verified =>
              /\ response'.kind \in {"WEBHOOK_CONFIG_ERROR", "INVALID_SIGNATURE",
                                     "WEBHOOK_PROCESSING_ERROR", "WEBHOOK_ERROR"}
              /\ UNCHANGED <<bookings, payments, intents, emails>>
        /\ probe'.reached => Verified

UnverifiedNotificationRejected == [][UnverifiedNotificationRejectedStep]_vars

\* A correctly signed notification with a body that does not parse has been
\* turned away by routes/stripeWebhook.js.
MalformedNotificationRejected ==
    /\ "signature" \in DOMAIN probe
    /\ probe.done
    /\ ~probe.reached
    /\ probe.secretSet
    /\ probe.signature = "valid"
    /\ probe.payload = "malformed"
    /\ response.kind = "WEBHOOK_PROCESSING_ERROR"

\* The refund request in slot r has just been taken by this step.
RefundTaken(r) == req[r].op # "refund" /\ req'[r].op = "refund"

\* The refund request in slot r answers success with this step.
RefundSucceeds(r) ==
    /\ req[r].op = "refund"
    /\ req'[r] = Idle
    /\ response' = Reply("refund", "OK", TRUE)

\* C19: a refund is taken only for a Payment that is SUCCEEDED and an amount
\* that does not exceed the payment's amount; the request then sets the
\* Payment to REFUNDED with the refunded amount recorded, and answers success
\* after setting the booking to REFUNDED if the whole amount was refunded,
\* and without changing any booking if not.
RefundAcceptedAndRecordedStep ==
    \A r \in Slots :
        /\ RefundTaken(r) =>
              /\ payments[req'[r].ref].status = "SUCCEEDED"
              /\ req'[r].cost <= payments[req'[r].ref].amount
        /\ (req[r].op = "refund" /\ req'[r] # req[r]) =>
              /\ req[r].pc # "flip" => bookings' = bookings
              /\ req[r].pc # "mark" => payments' = payments
              /\ (req[r].pc = "mark" /\ response'.kind # "INTERNAL_ERROR") =>
                    payments' = [payments EXCEPT
                                    ![req[r].ref].status = "REFUNDED",
                                    ![req[r].ref].refundAmount = req[r].cost]
        /\ RefundSucceeds(r) =>
              LET p == payments[req[r].ref]
              IN  IF req[r].cost = p.amount
                  THEN /\ req[r].pc = "flip"
                       /\ bookings' = [bookings EXCEPT
                                          ![p.bookingId].status = "REFUNDED"]
                  ELSE /\ req[r].pc = "mark"
                       /\ bookings' = bookings

RefundAcceptedAndRecorded == [][RefundAcceptedAndRecordedStep]_vars

\* A refund of part of the amount has answered success: the Payment is
\* REFUNDED with that part recorded and the booking is still CONFIRMED.
PartRefundKeepsBooking ==
    /\ response = Reply("refund", "OK", TRUE)
    /\ \E p \in 1..Len(payments) :
          /\ payments[p].status = "REFUNDED"
          /\ payments[p].refundAmount > 0
          /\ payments[p].refundAmount < payments[p].amount
          /\ bookings[payments[p].bookingId].status = "CONFIRMED"

\* The start request in slot r has just been taken by this step.
StartTaken(r) == req[r].op # "start" /\ req'[r].op = "start"

\* C20: a start is taken only from the booking's owner, for a CONFIRMED
\* booking, at a time from 15 minutes before its start to its end; only a
\* start that was taken changes a booking, and it sets that booking to
\* ACTIVE; a start turned away as too early or expired was outside that
\* time range and leaves the booking CONFIRMED.
StartOnlyInWindowStep ==
    /\ \A r \in Slots :
          StartTaken(r) =>
              LET b == bookings[req'[r].bid]
              IN  /\ b.userId = req'[r].user
                  /\ b.status = "CONFIRMED"
                  /\ b.startTime - 15 <= now
                  /\ now <= b.endTime
    /\ bookings' # bookings =>
          \E r \in Slots :
              /\ req[r].op = "start"
              /\ req[r].pc = "flip"
              /\ bookings' = [bookings EXCEPT ![req[r].bid].status = "ACTIVE"]
    /\ (response' # response /\ response'.op = "start"
          /\ response'.kind \in {"TOO_EARLY", "BOOKING_EXPIRED"}) =>
          /\ bookings' = bookings
          /\ \E bid \in BookingIdx :
                /\ bookings[bid].status = "CONFIRMED"
                /\ response'.kind = "TOO_EARLY"
                      => now < bookings[bid].startTime - 15
                /\ response'.kind = "BOOKING_EXPIRED"
                      => now > bookings[bid].endTime

StartOnlyInWindow == [][StartOnlyInWindowStep]_vars

\* A session has been started exactly 15 minutes before the booking's start.
StartedFifteenMinutesEarly ==
    /\ response = Reply("start", "OK", TRUE)
    /\ \E bid \in BookingIdx :
          /\ bookings[bid].status = "ACTIVE"
          /\ now = bookings[bid].startTime - 15

\* This step sends the response kind of route op.
Answers(op, kind) ==
    /\ response' # response
    /\ response'.op = op
    /\ response'.kind = kind

\* The booking that the request finishing in this step is about.
Finishing(op, bid) ==
    \E r \in Slots : req[r].op = op /\ req[r].bid = bid /\ req'[r] = Idle

\* C21: in the driver's day, the booking of 10:00-12:00 at 4.00 an hour is
\* inserted PENDING with a total cost of 8.00; when its charge succeeded the
\* create answers success with the booking CONFIRMED and its Payment row
\* SUCCEEDED for 8.00; the start at 09:50 is never turned away as too early
\* or expired and, once taken, leaves the booking ACTIVE; the stop at 11:30
\* leaves it COMPLETED.
DriversDayStep ==
    /\ Len(bookings') > Len(bookings) =>
          LET b == bookings'[Len(bookings')]
          IN  /\ b.status = "PENDING"
              /\ b.startTime = DayStart
              /\ b.endTime = DayEnd
              /\ b.totalCost = 2 * 800
    /\ \A bid \in BookingIdx :
          /\ (Finishing("create", bid)
                /\ \E i \in 1..Len(intents) :
                      /\ intents[i].bookingId = bid
                      /\ intents[i].status = "succeeded") =>
                /\ Answers("create", "OK")
                /\ bookings'[bid].status = "CONFIRMED"
                /\ paymentOf(bid)' # NoId
                /\ payments'[paymentOf(bid)'].status = "SUCCEEDED"
                /\ payments'[paymentOf(bid)'].amount = 2 * 800
          /\ Finishing("start", bid) =>
                /\ Answers("start", "OK")
                /\ bookings[bid].status = "CONFIRMED"
                /\ bookings'[bid].status = "ACTIVE"
          /\ Finishing("stop", bid) =>
                /\ Answers("stop", "OK")
                /\ bookings[bid].status = "ACTIVE"
                /\ bookings'[bid].status = "COMPLETED"
    /\ ~Answers("start", "TOO_EARLY")
    /\ ~Answers("start", "BOOKING_EXPIRED")

DriversDay == [][DriversDayStep]_vars

\* At 11:30 the stop has answered success: the booking of 10:00-12:00 is
\* COMPLETED, costs 8.00, and its Payment row is SUCCEEDED for 8.00 on a
\* charge that succeeded.
DriversDayCompleted ==
    /\ now = DayClock[3]
    /\ response = Reply("stop", "OK", TRUE)
    /\ \E p \in 1..Len(payments) :
          LET b == bookings[payments[p].bookingId]
          IN  /\ b.status = "COMPLETED"
              /\ b.startTime = DayStart
              /\ b.endTime = DayEnd
              /\ b.totalCost = 2 * 800
              /\ payments[p].status = "SUCCEEDED"
              /\ payments[p].amount = 2 * 800
              /\ payments[p].stripePaymentId # NoId
              /\ intents[payments[p].stripePaymentId].status = "succeeded"

(***************************************************************************)
(* C22: deleting a parking space never removes its record, and a delete    *)
(* request changes nothing about a space that has a confirmed or active    *)
(* booking which is in progress or starts in the future.                   *)
(***************************************************************************)
\* The confirmed or active bookings of a space that have not ended yet:
\* those in progress and those still to start.
CurrentBookings(spaceId) ==
    {i \in 1..Len(bookings) :
        /\ bookings[i].spaceId = spaceId
        /\ bookings[i].status \in {"CONFIRMED", "ACTIVE"}
        /\ bookings[i].endTime > now}

DeleteKeepsBookedSpaceStep ==
    /\ DOMAIN spaces' = DOMAIN spaces
    /\ \A s \in DOMAIN spaces :
            CurrentBookings(s) # {} => spaces'[s] = spaces[s]

UpdateTaken(r) == req[r].pc = "idle" /\ req'[r].op = "update"

UpdateWriting(r) == req[r].op = "update" /\ req'[r] # req[r]

UpdateChangesVehicleOnlyStep ==
    /\ \A r \in Slots :
            UpdateTaken(r) =>
                /\ req'[r].bid \in 1..Len(bookings)
                /\ bookings[req'[r].bid].status = "CONFIRMED"
                /\ now < bookings[req'[r].bid].startTime
                /\ bookings[req'[r].bid].userId = req'[r].user
    /\ \A r \in Slots :
            UpdateWriting(r) =>
                /\ response' = Reply("update", "OK", TRUE)
                /\ bookings' =
                      [bookings EXCEPT ![req[r].bid].vehicleReg =
                                            toUpperCase(req[r].reg)]
                /\ UNCHANGED <<payments, intents, spaces>>
    /\ response'.op = "update" /\ response'.kind = "OK" =>
            \E r \in Slots : UpdateWriting(r)
    /\ \A i \in 1..Len(bookings) :
            /\ i <= Len(bookings')
            /\ bookings'[i].userId = bookings[i].userId
            /\ bookings'[i].spaceId = bookings[i].spaceId

UpdateChangesVehicleOnly == [][UpdateChangesVehicleOnlyStep]_vars

\* An update went through: the booking carries the new registration.
UpdatedRegistration ==
    /\ response = Reply("update", "OK", TRUE)
    /\ \E i \in 1..Len(bookings) :
            /\ bookings[i].vehicleReg = "CD34"
            /\ bookings[i].status = "CONFIRMED"

(***************************************************************************)
(* C24: an update, extend, cancel, start or stop request on a booking by   *)
(* anyone but the user who made it, whatever the role, is rejected as      *)
(* forbidden.  As amended: unless it is an update whose body fails the     *)
(* validation, which is rejected as a validation error.                    *)
(***************************************************************************)
Strangers(bid) == {u \in Requesters : u # bookings[bid].userId}

\* What every first step of route op does: it answers for op or puts a
\* request of op in flight.
Opens(op) ==
    /\ Quiet
    /\ \/ response'.op = op
       \/ \E r \in Slots : req[r].pc = "idle" /\ req'[r].op = op

StrangerUpdates(valid) ==
    /\ Opens("update")
    /\ \E r \in Slots, bid \in 1..Len(bookings), reg \in UpdateRegs :
            /\ validReg(reg) = valid
            /\ \E user \in Strangers(bid) : UpdateBegin(r, user, bid, reg)

StrangerActs ==
    \/ /\ Opens("extend")
       /\ \E r \in Slots, bid \in 1..Len(bookings), newEndTime \in Instants :
            \E user \in Strangers(bid) : ExtendBegin(r, user, bid, newEndTime)
    \/ /\ Opens("cancel")
       /\ \E r \in Slots, bid \in 1..Len(bookings) :
            \E user \in Strangers(bid) : CancelBegin(r, user, bid)
    \/ /\ Opens("start")
       /\ \E r \in Slots, bid \in 1..Len(bookings) :
            \E user \in Strangers(bid) : StartBegin(r, user, bid)
    \/ /\ Opens("stop")
       /\ \E r \in Slots, bid \in 1..Len(bookings) :
            \E user \in Strangers(bid) : StopBegin(r, user, bid)

TurnedAway(kind) ==
    /\ response'.kind = kind
    /\ ~response'.touched
    /\ req' = req
    /\ UNCHANGED store

StrangerForbiddenStep ==
    (StrangerUpdates(TRUE) \/ StrangerUpdates(FALSE) \/ StrangerActs)
        => TurnedAway("UNAUTHORIZED")

StrangerForbidden == [][StrangerForbiddenStep]_vars

StrangerForbiddenOrInvalidStep ==
    /\ (StrangerUpdates(TRUE) \/ StrangerActs) => TurnedAway("UNAUTHORIZED")
    /\ StrangerUpdates(FALSE) => TurnedAway("VALIDATION_ERROR")

StrangerForbiddenOrInvalid == [][StrangerForbiddenOrInvalidStep]_vars

\* Each of the five routes has turned someone away as forbidden; the stop
\* of a session in progress is the last of them here.
StrangerStoppedSession ==
    /\ response = Reply("stop", "UNAUTHORIZED", FALSE)
    /\ \E i \in 1..Len(bookings) : bookings[i].status = "ACTIVE"

(***************************************************************************)
(* C25: when extend answers PaymentFailed, the booking's end time and      *)
(* total cost are what they were before the request, whichever of the      *)
(* charge, the update of the booking and the payment record failed.        *)
(***************************************************************************)
ExtendFailing(r) ==
    /\ req[r].op = "extend"
    /\ req'[r] # req[r]
    /\ response' = Reply("extend", "PAYMENT_FAILED", TRUE)

ExtendFailureLeavesBookingStep ==
    \A r \in Slots :
        ExtendFailing(r) =>
            /\ bookings'[req[r].bid].endTime = req[r].t0
            /\ bookings'[req[r].bid].totalCost = req[r].base

ExtendFailureLeavesBooking == [][ExtendFailureLeavesBookingStep]_vars

(***************************************************************************)
(* C26: createBooking cancels the new booking and answers PaymentFailed    *)
(* only when the processor did not take the charge; a booking whose charge *)
(* succeeded is never left cancelled by createBooking, also when a write   *)
(* of the store after the charge fails.                                    *)
(***************************************************************************)
ChargeTaken(bid) ==
    \E i \in 1..Len(intents) :
        intents[i].bookingId = bid /\ intents[i].status = "succeeded"

CreateCancelling(r) ==
    /\ req[r].op = "create"
    /\ req'[r] # req[r]
    /\ \/ response' = Reply("create", "PAYMENT_FAILED", TRUE)
       \/ /\ req[r].bid \in 1..Len(bookings)
          /\ bookings[req[r].bid].status # "CANCELLED"
          /\ bookings'[req[r].bid].status = "CANCELLED"

CreateCancelsUnchargedOnlyStep ==
    \A r \in Slots : CreateCancelling(r) => ~ChargeTaken(req[r].bid)

CreateCancelsUnchargedOnly == [][CreateCancelsUnchargedOnlyStep]_vars

(***************************************************************************)
(* C27: whatever the interleaving of createBooking and pay requests, the   *)
(* processor takes the initial total cost of a booking at most once: two   *)
(* requests that both read the booking as pending do not both charge.      *)
(***************************************************************************)
\* The charges the processor took for a booking.  Under SpecCharge every
\* intent is one for the initial total cost.
ChargesTaken(bid) ==
    {i \in 1..Len(intents) :
        intents[i].bookingId = bid /\ intents[i].status = "succeeded"}

RECURSIVE ChargedFrom(_)
\* The amounts of the succeeded intents from index i on.
ChargedFrom(i) ==
    IF i > Len(intents) THEN 0
    ELSE (IF intents[i].status = "succeeded" THEN intents[i].amount ELSE 0)
         + ChargedFrom(i + 1)

\* Under SpecExtend the first intent is the charge of the creation and every
\* later one the charge of an extension of booking 1.
TotalCostIsCreationPlusCharged ==
    InFlight = {} =>
        bookings[1].totalCost = paidIntent.amount + ChargedFrom(2)

\* The same, for lost increments only: the stored total is not below what
\* was charged.
TotalCostCoversCharged ==
    InFlight = {} =>
        bookings[1].totalCost >= paidIntent.amount + ChargedFrom(2)

(***************************************************************************)
(* C29: across any interleaving of extend requests on one booking, the     *)
(* stored end time never moves earlier and stays after the start time.     *)
(***************************************************************************)
EndTimeNeverEarlierStep ==
    \A i \in 1..Len(bookings) :
        /\ bookings'[i].endTime >= bookings[i].endTime
        /\ bookings'[i].endTime > bookings'[i].startTime

EndTimeNeverEarlier == [][EndTimeNeverEarlierStep]_vars

(***************************************************************************)
(* C30: /payments/confirm sets to confirmed only a booking that belongs to *)
(* the requesting user and is pending; it never changes the status of      *)
(* another user's booking, nor of a cancelled, active, completed or        *)
(* refunded one.                                                           *)
(***************************************************************************)
\* The confirm request in slot r runs its booking.update.
ConfirmWriting(r) ==
    /\ req[r].op = "confirm"
    /\ req[r].pc = "flip"
    /\ req'[r].pc = "mark"

ConfirmOwnPendingOnlyStep ==
    \A r \in Slots :
        ConfirmWriting(r) =>
            /\ bookings[req[r].bid].userId = req[r].user
            /\ bookings[req[r].bid].status = "PENDING"
            /\ bookings' = setBookingStatus(req[r].bid, "CONFIRMED")

ConfirmOwnPendingOnly == [][ConfirmOwnPendingOnlyStep]_vars

\* The two parts on their own: the booking of another user; a booking that
\* is cancelled, active, completed or refunded.
ConfirmOwnOnlyStep ==
    \A r \in Slots :
        ConfirmWriting(r) => bookings[req[r].bid].userId = req[r].user

ConfirmOwnOnly == [][ConfirmOwnOnlyStep]_vars

ConfirmLeavesSettledStep ==
    \A r \in Slots :
        ConfirmWriting(r) =>
            bookings[req[r].bid].status \in {"PENDING", "CONFIRMED"}

ConfirmLeavesSettled == [][ConfirmLeavesSettledStep]_vars
=============================================================================
